---------------------------- MODULE Spec2Model ----------------------------
(* Model of ATB/backtesting/backtester.py (class Backtester), of            *)
(* ATB/core/bot_manager.py (class BotManager) and of                        *)
(* ATB/atb_logging/log_manager.py (class LogManager).                       *)
(*                                                                          *)
(* Money is modelled in exact arithmetic: closes are whole currency units   *)
(* and the one true division of the code (avg_price = cost / quantity) is   *)
(* an exact fraction <<numerator, denominator>> in lowest terms.            *)
(* A bar's date is its position in the price sequence (0-based).            *)
EXTENDS Integers, Sequences, FiniteSets, TLC

VARIABLES
    initial_balance,   \* Backtester.initial_balance
    current_balance,   \* Backtester.current_balance
    positions,         \* Backtester.positions : symbol -> position record
    trades,            \* Backtester.trades    : sequence of trade records
    equity_curve,      \* Backtester.equity_curve : sequence of equity points
    pc,                \* "idle" (no call in progress) or "loop" (_execute_trades)
    fetch,             \* outcome of _get_historical_data in the current/last call
    strategy,          \* outcome of strategy.generate_signals in the current/last call
    n,                 \* len(signals) = len(data) of the current/last call
    i,                 \* loop index of _execute_trades
    bar,               \* the row of signals/data the loop visited last
    result,            \* value returned by the last run_backtest call
    reused,            \* history: the current/last call found a Backtester that
                       \* had been through _initialize_backtest before
    frame,             \* the DataFrame _add_technical_indicators works on
    calls,             \* history: the number of times _add_technical_indicators
                       \* has worked on frame
    bots,              \* BotManager.bots : bot name -> configuration dict
    bot_threads,       \* the keys of BotManager.bot_threads
    bot_timers,        \* the keys of BotManager.bot_timers; the timer of a key
                       \* has been started and not stopped
    logs,              \* LogManager.logs : list name -> sequence of entries
    emitted,           \* history: the signals BotManager has emitted, in order
    call,              \* the last call of a BotManager or LogManager method
                       \* and whether it raised
    logged             \* history: list name -> every entry logged for the list

vars == <<initial_balance, current_balance, positions, trades, equity_curve,
          pc, fetch, strategy, n, i, bar, result, reused, frame, calls,
          bots, bot_threads, bot_timers, logs, emitted, call, logged>>

book == <<current_balance, positions, trades, equity_curve>>

\* the state of the BotManager and of its LogManager
manager == <<bots, bot_threads, bot_timers, logs, emitted, call, logged>>

\* the state of the Backtester and of its Indicator Calculator
backtester == <<initial_balance, book, pc, fetch, strategy, n, i, bar, result,
                reused, frame, calls>>

----------------------------------------------------------------------------
(* Bounds of the model                                                      *)

\* longest price sequence the data source returns
MaxBars == 54

\* close prices the data source returns
Closes == {100, 395}

\* the flat-price scenario: its longest price sequence and the bar that
\* carries its one buy signal
FlatBars == 60
FlatBuyIndex == 50

\* the longest history the Indicator Calculator is given, and the number
\* of times it is run on one frame
MaxHistory == 51
MaxCalls == 2

\* the number of entries the BotManager logs after its construction
MaxManagerLogs == 3

\* the number of calls of the log methods, and how many of them choose
\* their level and bot_name freely
MaxLogCalls == 1002
FreeLogCalls == 1

----------------------------------------------------------------------------
(* Program constants                                                        *)

\* __init__(initial_balance = 100000.0)
DefaultInitialBalance == 100000

\* starting balances a Backtester is constructed with: the default, and none
InitialBalances == {DefaultInitialBalance, 0}

\* `if i < 50: continue`
WarmUp == 50

\* `_execute_buy(..., current_price, 100)`
FixedQuantity == 100

\* `data.index.name`, the key every buy and sell of a run uses
IndexName == "Date"

\* python's None, for a value that holds records otherwise
None == [none |-> TRUE]

\* a collaborator the current call has not called
NotCalled == "not called"

EmptyDict == [k \in {} |-> None]

----------------------------------------------------------------------------
(* Exact arithmetic                                                         *)

RECURSIVE GCD(_, _)
GCD(a, b) == IF b = 0 THEN a ELSE GCD(b, a % b)

\* python's true division a / b (b > 0, a >= 0), as a fraction in lowest terms
TrueDiv(a, b) == LET g == GCD(a, b) IN <<a \div g, b \div g>>

Max(a, b) == IF a >= b THEN a ELSE b

Last(s) == s[Len(s)]

----------------------------------------------------------------------------
(* The portfolio the Trade Executor mutates: balance, positions, trades     *)

Portfolio(b, p, t) == [balance |-> b, positions |-> p, trades |-> t]

DictSet(d, k, v) == [x \in DOMAIN d \cup {k} |-> IF x = k THEN v ELSE d[x]]

DictDel(d, k) == [x \in DOMAIN d \ {k} |-> d[x]]

\* mutant of InsufficientFunds: the guard is missing
InsufficientFundsUnchecked(cost, balance) == FALSE

\* mutant of InsufficientFunds: a buy is refused only when no cash is left
InsufficientFundsWhenBroke(cost, balance) == balance <= 0

\* _execute_buy: the guard `cost > self.current_balance`
InsufficientFunds(cost, balance) == cost > balance

\* mutant of BoughtPosition: the average divides by the quantity just bought
BoughtPositionAvgOfLast(ps, symbol, price, quantity, cost) ==
    IF symbol \in DOMAIN ps
    THEN LET total_quantity == ps[symbol].quantity + quantity
             total_cost == ps[symbol].cost + cost
         IN [quantity |-> total_quantity,
             cost |-> total_cost,
             avg_price |-> TrueDiv(total_cost, quantity)]
    ELSE [quantity |-> quantity, cost |-> cost, avg_price |-> <<price, 1>>]

\* _execute_buy: the position after the buy
BoughtPosition(ps, symbol, price, quantity, cost) ==
    IF symbol \in DOMAIN ps
    THEN LET total_quantity == ps[symbol].quantity + quantity
             total_cost == ps[symbol].cost + cost
         IN [quantity |-> total_quantity,
             cost |-> total_cost,
             avg_price |-> TrueDiv(total_cost, total_quantity)]
    ELSE [quantity |-> quantity, cost |-> cost, avg_price |-> <<price, 1>>]

BuyTrade(date, symbol, price, quantity, cost) ==
    [date |-> date, symbol |-> symbol, side |-> "BUY",
     quantity |-> quantity, price |-> price, cost |-> cost]

\* mutant of ExecuteBuy: the cost is not taken from the balance
ExecuteBuyOnCredit(pf, date, symbol, price, quantity) ==
    LET cost == price * quantity IN
    IF InsufficientFunds(cost, pf.balance)
    THEN pf
    ELSE Portfolio(pf.balance,
                   DictSet(pf.positions, symbol,
                           BoughtPosition(pf.positions, symbol, price, quantity, cost)),
                   Append(pf.trades, BuyTrade(date, symbol, price, quantity, cost)))

\* Backtester._execute_buy
ExecuteBuy(pf, date, symbol, price, quantity) ==
    LET cost == price * quantity IN
    IF InsufficientFunds(cost, pf.balance)
    THEN pf
    ELSE Portfolio(pf.balance - cost,
                   DictSet(pf.positions, symbol,
                           BoughtPosition(pf.positions, symbol, price, quantity, cost)),
                   Append(pf.trades, BuyTrade(date, symbol, price, quantity, cost)))

SellTrade(date, symbol, price, quantity, revenue, pnl) ==
    [date |-> date, symbol |-> symbol, side |-> "SELL",
     quantity |-> quantity, price |-> price, revenue |-> revenue, pnl |-> pnl]

\* mutant of SellQuantity: a sell of the fixed lot instead of the whole position
SellQuantityFixedLot(pos) == FixedQuantity

\* _execute_sell: quantity sold
SellQuantity(pos) == pos.quantity

\* mutant of SellPnl: the operands swapped
SellPnlSwapped(revenue, pos) == pos.cost - revenue

\* _execute_sell: realized P&L
SellPnl(revenue, pos) == revenue - pos.cost

\* mutant of SoldPositions: the Position stays after the sell
SoldPositionsKept(ps, symbol) == ps

\* _execute_sell: positions after the sell
SoldPositions(ps, symbol) == DictDel(ps, symbol)

\* mutant of ExecuteSell: without a position, a SELL of nothing is recorded
ExecuteSellOfNothing(pf, date, symbol, price) ==
    IF symbol \notin DOMAIN pf.positions
    THEN Portfolio(pf.balance, pf.positions,
                   Append(pf.trades, SellTrade(date, symbol, price, 0, 0, 0)))
    ELSE LET pos == pf.positions[symbol]
             quantity == SellQuantity(pos)
             revenue == price * quantity
             pnl == SellPnl(revenue, pos)
         IN Portfolio(pf.balance + revenue,
                      SoldPositions(pf.positions, symbol),
                      Append(pf.trades,
                             SellTrade(date, symbol, price, quantity, revenue, pnl)))

\* Backtester._execute_sell
ExecuteSell(pf, date, symbol, price) ==
    IF symbol \notin DOMAIN pf.positions
    THEN pf
    ELSE LET pos == pf.positions[symbol]
             quantity == SellQuantity(pos)
             revenue == price * quantity
             pnl == SellPnl(revenue, pos)
         IN Portfolio(pf.balance + revenue,
                      SoldPositions(pf.positions, symbol),
                      Append(pf.trades,
                             SellTrade(date, symbol, price, quantity, revenue, pnl)))

\* mutant of PositionsValue: the position is valued at its cost basis
RECURSIVE PositionsValueAtCost(_, _, _)
PositionsValueAtCost(ps, keys, current_price) ==
    IF keys = {} THEN 0
    ELSE LET k == CHOOSE x \in keys : TRUE
         IN ps[k].cost + PositionsValueAtCost(ps, keys \ {k}, current_price)

\* _update_equity_curve: the value of the positions at the current price
RECURSIVE PositionsValue(_, _, _)
PositionsValue(ps, keys, current_price) ==
    IF keys = {} THEN 0
    ELSE LET k == CHOOSE x \in keys : TRUE
         IN ps[k].quantity * current_price
            + PositionsValue(ps, keys \ {k}, current_price)

\* mutant of EquityPoint: the position is not marked to the close
EquityPointCashOnly(pf, date, current_price) ==
    [date |-> date, balance |-> pf.balance,
     portfolio_value |-> pf.balance, equity |-> pf.balance]

\* Backtester._update_equity_curve: the point appended
EquityPoint(pf, date, current_price) ==
    LET portfolio_value ==
            pf.balance + PositionsValue(pf.positions, DOMAIN pf.positions, current_price)
    IN [date |-> date, balance |-> pf.balance,
        portfolio_value |-> portfolio_value, equity |-> portfolio_value]

\* mutant of UpdateEquityCurve: a point only while a position is held
UpdateEquityCurveWhenInvested(curve, pf, date, current_price) ==
    IF DOMAIN pf.positions = {} THEN curve
    ELSE Append(curve, [date |-> date, balance |-> pf.balance,
                        portfolio_value |-> pf.balance, equity |-> pf.balance])

\* Backtester._update_equity_curve
UpdateEquityCurve(curve, pf, date, current_price) ==
    Append(curve, EquityPoint(pf, date, current_price))

\* mutant of Skipped: the warm-up is one bar short
SkippedOneShort(k) == k < WarmUp - 1

\* _execute_trades: `if i < 50: continue`
Skipped(k) == k < WarmUp

\* mutant of BarTrades: the sell check comes first
BarTradesSellFirst(pf, date, close, buy, sell) ==
    LET pf1 == IF sell THEN ExecuteSell(pf, date, IndexName, close) ELSE pf
    IN IF buy THEN ExecuteBuy(pf1, date, IndexName, close, FixedQuantity)
       ELSE pf1

\* _execute_trades: the buy check, then the sell check, of one bar
BarTrades(pf, date, close, buy, sell) ==
    LET pf1 == IF buy THEN ExecuteBuy(pf, date, IndexName, close, FixedQuantity)
               ELSE pf
    IN IF sell THEN ExecuteSell(pf1, date, IndexName, close) ELSE pf1

----------------------------------------------------------------------------
(* Performance metrics                                                      *)
(*                                                                          *)
(* A float of the report is a fraction <<num, den>> in lowest terms with    *)
(* den > 0; <<0, 0>> is NaN and <<1, 0>>, <<-1, 0>> are the infinities.     *)
(* The standard deviation is irrational in general: volatility and the      *)
(* Sharpe ratio are records that keep what they were computed from.         *)

\* the `252` of annualized_return and volatility
TradingDays == 252

NaN == <<0, 0>>

Zero == <<0, 1>>

Abs(a) == IF a < 0 THEN -a ELSE a

Sign(a) == IF a > 0 THEN 1 ELSE IF a < 0 THEN -1 ELSE 0

\* numpy's true division a / b (b >= 0): b = 0 gives an infinity or NaN,
\* never an exception
NpDiv(a, b) ==
    IF b = 0 THEN <<Sign(a), 0>>
    ELSE LET g == GCD(Abs(a), b) IN <<a \div g, b \div g>>

IsNaN(x) == x = NaN

IsFinite(x) == x[2] > 0

\* x * (a / b) for a float x and integers a > 0, b > 0
Scaled(x, a, b) == IF IsFinite(x) THEN NpDiv(x[1] * a, x[2] * b) ELSE x

\* x < y for floats that are not NaN and not both infinite
Less(x, y) == x[1] * y[2] < y[1] * x[2]

\* equity_df['equity']
EquityColumn(curve) == [k \in 1..Len(curve) |-> curve[k].equity]

\* equity_df['equity'].pct_change()
PctChange(equity) ==
    [k \in 1..Len(equity) |->
        IF k = 1 THEN NaN
        ELSE NpDiv(equity[k] - equity[k - 1], equity[k - 1])]

\* equity_df['returns'].std() * np.sqrt(252): NaN values are skipped, and
\* the sample deviation (ddof = 1) of fewer than two values is NaN
Volatility(returns) ==
    LET observed == {k \in 1..Len(returns) : ~IsNaN(returns[k])}
    IN [kind |-> IF \/ Cardinality(observed) < 2
                    \/ \E k \in observed : ~IsFinite(returns[k])
                 THEN "nan"
                 ELSE IF \A j, k \in observed : returns[j] = returns[k]
                      THEN "zero"
                      ELSE "positive",
        std_of |-> returns]

\* `volatility > 0`, False for NaN
Positive(volatility) == volatility.kind = "positive"

\* mutant of SharpeRatio: the guard is `volatility != 0`
SharpeRatioUnlessZero(annualized_return, volatility) ==
    IF volatility.kind # "zero"
    THEN [kind |-> "quotient", num |-> annualized_return, den |-> volatility]
    ELSE [kind |-> "zero"]

\* `annualized_return / volatility if volatility > 0 else 0`
SharpeRatio(annualized_return, volatility) ==
    IF Positive(volatility)
    THEN [kind |-> "quotient", num |-> annualized_return, den |-> volatility]
    ELSE [kind |-> "zero"]

\* equity_df['equity'].cummax()
CumMax(equity) ==
    [k \in 1..Len(equity) |->
        CHOOSE m \in {equity[j] : j \in 1..k} : \A j \in 1..k : equity[j] <= m]

\* (equity - cummax) / cummax, row by row
Drawdown(equity) ==
    LET cummax == CumMax(equity)
    IN [k \in 1..Len(equity) |-> NpDiv(equity[k] - cummax[k], cummax[k])]

\* Series.min(): NaN values are skipped, NaN when nothing is left
SeriesMin(s) ==
    LET observed == {s[k] : k \in 1..Len(s)} \ {NaN}
    IN IF observed = {} THEN NaN
       ELSE CHOOSE m \in observed : \A x \in observed : ~Less(x, m)

\* trades_df[trades_df['pnl'] > 0]: a BUY row has no pnl (NaN in the frame)
WinningTrades(ts) ==
    {k \in 1..Len(ts) : "pnl" \in DOMAIN ts[k] /\ ts[k].pnl > 0}

\* mutant of WinRate: the denominator counts the sells only
WinRateOverSells(ts) ==
    LET sells == {k \in 1..Len(ts) : ts[k].side = "SELL"}
    IN IF sells = {} THEN Zero
       ELSE NpDiv(Cardinality(WinningTrades(ts)), Cardinality(sells))

\* _calculate_performance: win_rate
WinRate(ts) ==
    IF ts = <<>> THEN Zero
    ELSE NpDiv(Cardinality(WinningTrades(ts)), Len(ts))

\* mutant of CalculatePerformance: no guard, a report of zeros for no data
CalculatePerformanceZeros(initial, curve, ts) ==
    [total_return |-> Zero,
     annualized_return |-> Zero,
     volatility |-> Volatility(PctChange(EquityColumn(curve))),
     sharpe_ratio |-> [kind |-> "zero"],
     max_drawdown |-> Zero,
     win_rate |-> WinRate(ts),
     total_trades |-> Len(ts),
     final_balance |-> IF curve = <<>> THEN 0 ELSE Last(curve).equity,
     equity_curve |-> curve,
     trades |-> ts]

\* Backtester._calculate_performance
CalculatePerformance(initial, curve, ts) ==
    IF curve = <<>>
    THEN [error |-> "No equity curve data"]
    ELSE LET equity == EquityColumn(curve)
             total_return == NpDiv(Last(equity) - initial, initial)
             annualized_return == Scaled(total_return, TradingDays, Len(equity))
             volatility == Volatility(PctChange(equity))
         IN [total_return |-> total_return,
             annualized_return |-> annualized_return,
             volatility |-> volatility,
             sharpe_ratio |-> SharpeRatio(annualized_return, volatility),
             max_drawdown |-> SeriesMin(Drawdown(equity)),
             win_rate |-> WinRate(ts),
             total_trades |-> Len(ts),
             final_balance |-> Last(equity),
             equity_curve |-> curve,
             trades |-> ts]

IsError(r) == r # None /\ "error" \in DOMAIN r

----------------------------------------------------------------------------
(* Indicators                                                               *)
(*                                                                          *)
(* A frame is a record of columns, each a sequence with one cell per bar.   *)
(* A cell of SMA_20, SMA_50 and RSI is a float (a fraction, NaN = <<0, 0>>).*)
(* An exponentially weighted mean has weights (1 - 2/(span + 1))^j, whose   *)
(* exact value needs numbers that grow with 13^k and 27^k; a cell of MACD   *)
(* and MACD_Signal is a record that tells which mean it is: the span, the   *)
(* column it is the mean of and the row up to which the mean runs.          *)

\* rolling(window=20), rolling(window=50), rolling(window=14)
SmaShortWindow == 20
SmaLongWindow == 50
RsiWindow == 14

\* ewm(span=12), ewm(span=26), ewm(span=9)
MacdFastSpan == 12
MacdSlowSpan == 26
MacdSignalSpan == 9

RECURSIVE Sum(_, _, _)
Sum(column, lo, hi) ==
    IF lo > hi THEN 0 ELSE column[hi] + Sum(column, lo, hi - 1)

\* Series.rolling(window).mean() of a column of integers: NaN until the
\* window holds `window` observations (min_periods defaults to the window)
RollingMean(column, window) ==
    [k \in 1..Len(column) |->
        IF k < window THEN NaN
        ELSE NpDiv(Sum(column, k - window + 1, k), window)]

\* delta.where(delta > 0, 0) for delta = Close.diff(): the first delta is
\* NaN, which is not > 0 and is replaced by 0 like every other non-gain
GainColumn(close) ==
    [k \in 1..Len(close) |->
        IF k > 1 /\ close[k] - close[k - 1] > 0
        THEN close[k] - close[k - 1] ELSE 0]

\* -delta.where(delta < 0, 0)
LossColumn(close) ==
    [k \in 1..Len(close) |->
        IF k > 1 /\ close[k] - close[k - 1] < 0
        THEN close[k - 1] - close[k] ELSE 0]

\* gain / loss of two floats that are NaN or >= 0: numpy's division, inf
\* for x / 0 and NaN for 0 / 0
FloatDiv(x, y) ==
    IF IsNaN(x) \/ IsNaN(y) THEN NaN
    ELSE IF y[1] = 0 THEN <<Sign(x[1]), 0>>
    ELSE NpDiv(x[1] * y[2], x[2] * y[1])

\* 100 - (100 / (1 + rs)) for rs that is NaN, inf or p/q >= 0:
\* 100 / inf is 0, and 100 - 100 / (1 + p/q) = 100 p / (p + q)
RsiOf(rs) ==
    IF IsNaN(rs) THEN NaN
    ELSE IF ~IsFinite(rs) THEN <<100, 1>>
    ELSE NpDiv(100 * rs[1], rs[1] + rs[2])

\* data['RSI']
Rsi(close) ==
    LET gain == RollingMean(GainColumn(close), RsiWindow)
        loss == RollingMean(LossColumn(close), RsiWindow)
    IN [k \in 1..Len(close) |-> RsiOf(FloatDiv(gain[k], loss[k]))]

\* Series.ewm(span=span).mean() of the column called `of`: min_periods
\* defaults to 0, so that every row of a column without NaN has a mean, the
\* first row included (the mean of one value is the value)
EwmMean(of, length, span) ==
    [k \in 1..length |-> [kind |-> "ewm", span |-> span, of |-> of, upto |-> k]]

\* exp1 - exp2, row by row
Difference(exp1, exp2) ==
    [k \in 1..Len(exp1) |->
        [kind |-> "difference", minuend |-> exp1[k], subtrahend |-> exp2[k]]]

\* a cell of SMA_20, SMA_50 or RSI is null
IsNull(cell) == IsNaN(cell)

\* a cell of MACD or MACD_Signal is null
IsNullMean(cell) == cell.kind = "nan"

IndicatorColumns == {"SMA_20", "SMA_50", "RSI", "MACD", "MACD_Signal"}

\* mutant of AddTechnicalIndicators: the signal line smooths the
\* MACD_Signal column the frame already has
AddTechnicalIndicatorsResmoothing(data) ==
    LET length == Len(data.Close) IN
    [Close |-> data.Close,
     SMA_20 |-> RollingMean(data.Close, SmaShortWindow),
     SMA_50 |-> RollingMean(data.Close, SmaLongWindow),
     RSI |-> Rsi(data.Close),
     MACD |-> Difference(EwmMean("Close", length, MacdFastSpan),
                         EwmMean("Close", length, MacdSlowSpan)),
     MACD_Signal |-> IF "MACD_Signal" \in DOMAIN data
                     THEN EwmMean("MACD_Signal", length, MacdSignalSpan)
                     ELSE EwmMean("MACD", length, MacdSignalSpan)]

\* Backtester._add_technical_indicators
AddTechnicalIndicators(data) ==
    LET length == Len(data.Close) IN
    [Close |-> data.Close,
     SMA_20 |-> RollingMean(data.Close, SmaShortWindow),
     SMA_50 |-> RollingMean(data.Close, SmaLongWindow),
     RSI |-> Rsi(data.Close),
     MACD |-> Difference(EwmMean("Close", length, MacdFastSpan),
                         EwmMean("Close", length, MacdSlowSpan)),
     MACD_Signal |-> EwmMean("MACD", length, MacdSignalSpan)]

----------------------------------------------------------------------------
(* LogManager                                                               *)

\* `if len(...) > 1000` and `[-1000:]`
LogCapacity == 1000

\* the key of the list every entry goes to
GeneralList == "general"

\* bot_name = None, the default; `if bot_name:` treats "" the same way
NoBot == ""

\* _log: the entry; its timestamp is the wall clock's and is left out
LogEntry(level, message, bot_name) ==
    [level |-> level, message |-> message, bot_name |-> bot_name]

\* list[-1000:] when the list has more than 1000 entries
KeepLast(list) ==
    IF Len(list) > LogCapacity
    THEN SubSeq(list, Len(list) - LogCapacity + 1, Len(list))
    ELSE list

\* _log: the entry is appended to the list called `name`, created when it
\* does not exist, and the list is cut to its last 1000 entries
AppendedTo(lg, name, entry) ==
    LET list == IF name \in DOMAIN lg THEN lg[name] ELSE <<>>
    IN DictSet(lg, name, KeepLast(Append(list, entry)))

\* LogManager._log, on the dict of lists
Log(lg, level, message, bot_name) ==
    LET entry == LogEntry(level, message, bot_name)
        lg1 == IF bot_name # NoBot THEN AppendedTo(lg, bot_name, entry) ELSE lg
    IN AppendedTo(lg1, GeneralList, entry)

\* LogManager.get_general_logs
GeneralLogs(lg) == IF GeneralList \in DOMAIN lg THEN lg[GeneralList] ELSE <<>>

\* the lists a call of _log with this bot_name logs its entry for
ListsOf(bot_name) == {GeneralList} \cup ({bot_name} \ {NoBot})

\* history: the entry is added, once, to the record of every list the call
\* logs it for
Recorded(hist, level, message, bot_name) ==
    [name \in DOMAIN hist \cup ListsOf(bot_name) |->
        LET before == IF name \in DOMAIN hist THEN hist[name] ELSE <<>>
        IN IF name \in ListsOf(bot_name)
           THEN Append(before, LogEntry(level, message, bot_name))
           ELSE before]

----------------------------------------------------------------------------
(* BotManager                                                               *)
(*                                                                          *)
(* A method is an operator on the record m of the manager's fields; it      *)
(* returns the record after the call, with `raised` telling whether the     *)
(* call raised. bot_threads and bot_timers are the sets of their keys: a    *)
(* timer is started when its key is added and stopped when it is deleted.   *)

\* time.time(), not told apart
Time == "time.time()"

\* add_bot: default_config; risk_per_trade is a float
DefaultConfig ==
    [strategy |-> "Simple MA", symbol |-> "AAPL", active |-> FALSE,
     paper_trading |-> TRUE, risk_per_trade |-> <<2, 1>>, created |-> Time]

\* {**d, **c} and d.update(c)
Merge(d, c) ==
    [k \in DOMAIN d \cup DOMAIN c |-> IF k \in DOMAIN c THEN c[k] ELSE d[k]]

\* m after self.log_manager.log_<level>(message)
Logged(m, level, message) ==
    [m EXCEPT !.logs = Log(@, level, message, NoBot),
              !.logged = Recorded(@, level, message, NoBot)]

\* m after self.<signal>.emit(bot_name, ...)
Emitted(m, signal) == [m EXCEPT !.emitted = Append(@, signal)]

Signal(name, bot_name) == [signal |-> name, bot_name |-> bot_name]

\* m after `raise`
Raised(m) == [m EXCEPT !.raised = TRUE]

DoesNotExist(bot_name) == "Bot '" \o bot_name \o "' does not exist"

\* BotManager.is_bot_active
IsBotActive(m, bot_name) ==
    /\ bot_name \in DOMAIN m.bots
    /\ "active" \in DOMAIN m.bots[bot_name]
    /\ m.bots[bot_name].active

\* mutant of AddBot: an existing bot is overwritten
AddBotOverwrites(m, bot_name, config) ==
    Logged([m EXCEPT !.bots = DictSet(@, bot_name, Merge(DefaultConfig, config))],
           "INFO", "Added bot: " \o bot_name)

\* BotManager.add_bot
AddBot(m, bot_name, config) ==
    IF bot_name \in DOMAIN m.bots
    THEN Raised(Logged(m, "ERROR",
                       "Error adding bot '" \o bot_name \o "': Bot '"
                           \o bot_name \o "' already exists"))
    ELSE Logged([m EXCEPT !.bots =
                     DictSet(@, bot_name, Merge(DefaultConfig, config))],
                "INFO", "Added bot: " \o bot_name)

\* mutant of StartBot: a running bot is started again
StartBotAgain(m, bot_name) ==
    IF bot_name \notin DOMAIN m.bots
    THEN Raised(Emitted(Logged(m, "ERROR",
                               "Error starting bot '" \o bot_name \o "': "
                                   \o DoesNotExist(bot_name)),
                        Signal("bot_error", bot_name)))
    ELSE Emitted(
             Logged([m EXCEPT
                         !.bots[bot_name] =
                             Merge(@, [active |-> TRUE, started |-> Time]),
                         !.bot_threads = @ \cup {bot_name},
                         !.bot_timers = @ \cup {bot_name}],
                    "INFO", "Started bot: " \o bot_name),
             Signal("bot_started", bot_name))

\* BotManager.start_bot
StartBot(m, bot_name) ==
    IF bot_name \notin DOMAIN m.bots
    THEN Raised(Emitted(Logged(m, "ERROR",
                               "Error starting bot '" \o bot_name \o "': "
                                   \o DoesNotExist(bot_name)),
                        Signal("bot_error", bot_name)))
    ELSE IF IsBotActive(m, bot_name)
    THEN Logged(m, "WARNING", "Bot '" \o bot_name \o "' is already running")
    ELSE Emitted(
             Logged([m EXCEPT
                         !.bots[bot_name] =
                             Merge(@, [active |-> TRUE, started |-> Time]),
                         !.bot_threads = @ \cup {bot_name},
                         !.bot_timers = @ \cup {bot_name}],
                    "INFO", "Started bot: " \o bot_name),
             Signal("bot_started", bot_name))

\* BotManager.stop_bot
StopBot(m, bot_name) ==
    IF bot_name \notin DOMAIN m.bots
    THEN Raised(Emitted(Logged(m, "ERROR",
                               "Error stopping bot '" \o bot_name \o "': "
                                   \o DoesNotExist(bot_name)),
                        Signal("bot_error", bot_name)))
    ELSE IF ~IsBotActive(m, bot_name)
    THEN Logged(m, "WARNING", "Bot '" \o bot_name \o "' is not running")
    ELSE Emitted(
             Logged([m EXCEPT
                         !.bots[bot_name] =
                             Merge(@, [active |-> FALSE, stopped |-> Time]),
                         !.bot_timers = @ \ {bot_name},
                         !.bot_threads = @ \ {bot_name}],
                    "INFO", "Stopped bot: " \o bot_name),
             Signal("bot_stopped", bot_name))

\* mutant of RemoveBot: a running bot is deleted without being stopped
RemoveBotWithoutStop(m, bot_name) ==
    IF bot_name \notin DOMAIN m.bots
    THEN Raised(Logged(m, "ERROR",
                       "Error removing bot '" \o bot_name \o "': "
                           \o DoesNotExist(bot_name)))
    ELSE Logged([m EXCEPT !.bots = DictDel(@, bot_name),
                          !.bot_threads = @ \ {bot_name},
                          !.bot_timers = @ \ {bot_name}],
                "INFO", "Removed bot: " \o bot_name)

\* BotManager.remove_bot
RemoveBot(m, bot_name) ==
    IF bot_name \notin DOMAIN m.bots
    THEN Raised(Logged(m, "ERROR",
                       "Error removing bot '" \o bot_name \o "': "
                           \o DoesNotExist(bot_name)))
    ELSE LET m1 == IF IsBotActive(m, bot_name) THEN StopBot(m, bot_name) ELSE m
         IN Logged([m1 EXCEPT !.bots = DictDel(@, bot_name),
                              !.bot_threads = @ \ {bot_name},
                              !.bot_timers = @ \ {bot_name}],
                   "INFO", "Removed bot: " \o bot_name)

\* start_all_bots: the loop over the bots that are left to visit; the
\* order of the visits is one fixed order of the names
RECURSIVE StartEach(_, _)
StartEach(m, names) ==
    IF names = {} THEN m
    ELSE LET bot_name == CHOOSE x \in names : TRUE
             m1 == IF ~IsBotActive(m, bot_name) THEN StartBot(m, bot_name) ELSE m
         IN StartEach(m1, names \ {bot_name})

\* BotManager.start_all_bots
StartAllBots(m) == StartEach(m, DOMAIN m.bots)

\* stop_all_bots: the loop
RECURSIVE StopEach(_, _)
StopEach(m, names) ==
    IF names = {} THEN m
    ELSE LET bot_name == CHOOSE x \in names : TRUE
             m1 == IF IsBotActive(m, bot_name) THEN StopBot(m, bot_name) ELSE m
         IN StopEach(m1, names \ {bot_name})

\* BotManager.stop_all_bots
StopAllBots(m) == StopEach(m, DOMAIN m.bots)

\* BotManager.get_bot: raises for a name that does not exist, returns a
\* copy otherwise
GetBot(m, bot_name) == IF bot_name \notin DOMAIN m.bots THEN Raised(m) ELSE m

\* mutant of UpdateBotConfig: no check that the bot is not running
UpdateBotConfigWhileRunning(m, bot_name, config) ==
    IF bot_name \notin DOMAIN m.bots
    THEN Raised(Logged(m, "ERROR",
                       "Error updating bot config '" \o bot_name \o "': "
                           \o DoesNotExist(bot_name)))
    ELSE Logged([m EXCEPT !.bots[bot_name] = Merge(@, config)],
                "INFO", "Updated config for bot: " \o bot_name)

\* BotManager.update_bot_config
UpdateBotConfig(m, bot_name, config) ==
    IF bot_name \notin DOMAIN m.bots
    THEN Raised(Logged(m, "ERROR",
                       "Error updating bot config '" \o bot_name \o "': "
                           \o DoesNotExist(bot_name)))
    ELSE IF IsBotActive(m, bot_name)
    THEN Raised(Logged(m, "ERROR",
                       "Error updating bot config '" \o bot_name
                           \o "': Cannot update config while bot '"
                           \o bot_name \o "' is running"))
    ELSE Logged([m EXCEPT !.bots[bot_name] = Merge(@, config)],
                "INFO", "Updated config for bot: " \o bot_name)

\* BotManager._simulate_trading: `trade` is the outcome of
\* random.random() < 0.1 and trade_type that of random.choice; the random
\* price and quantity are left out of the messages and of the signal
SimulateTrading(m, bot_name, config, trade, trade_type) ==
    LET m1 == IF trade
              THEN Emitted(Logged(m, "INFO",
                                  "Bot '" \o bot_name \o "' " \o trade_type
                                      \o " " \o config.symbol),
                           [signal |-> "bot_trade", bot_name |-> bot_name,
                            type |-> trade_type, symbol |-> config.symbol,
                            strategy |-> config.strategy])
              ELSE m
    IN Logged(m1, "INFO",
              "Bot '" \o bot_name \o "' monitoring " \o config.symbol)

\* mutant of UpdateBot: no check that the bot is active
UpdateBotUnguarded(m, bot_name, trade, trade_type) ==
    SimulateTrading(m, bot_name,
                    IF bot_name \in DOMAIN m.bots THEN m.bots[bot_name]
                    ELSE DefaultConfig,
                    trade, trade_type)

\* BotManager._update_bot, the slot of a bot's timer
UpdateBot(m, bot_name, trade, trade_type) ==
    IF ~IsBotActive(m, bot_name) THEN m
    ELSE SimulateTrading(m, bot_name, m.bots[bot_name], trade, trade_type)

\* _initialize_sample_bots: sample_bots
SampleBots ==
    <<[bot_name |-> "AAPL_MA_Bot",
       config |-> [strategy |-> "Simple MA", symbol |-> "AAPL",
                   active |-> FALSE, paper_trading |-> TRUE,
                   risk_per_trade |-> <<2, 1>>, created |-> Time]],
      [bot_name |-> "GOOGL_RSI_Bot",
       config |-> [strategy |-> "RSI", symbol |-> "GOOGL",
                   active |-> FALSE, paper_trading |-> TRUE,
                   risk_per_trade |-> <<3, 2>>, created |-> Time]],
      [bot_name |-> "TSLA_MACD_Bot",
       config |-> [strategy |-> "MACD", symbol |-> "TSLA",
                   active |-> FALSE, paper_trading |-> TRUE,
                   risk_per_trade |-> <<3, 1>>, created |-> Time]]>>

\* BotManager.__init__ before _initialize_sample_bots, with a LogManager
\* that has logged nothing
NewManager ==
    [bots |-> EmptyDict, bot_threads |-> {}, bot_timers |-> {},
     logs |-> EmptyDict, logged |-> EmptyDict, emitted |-> <<>>,
     raised |-> FALSE]

\* _initialize_sample_bots: add_bot for the first k sample bots, in order
RECURSIVE InitializeSampleBots(_)
InitializeSampleBots(k) ==
    IF k = 0 THEN NewManager
    ELSE AddBot(InitializeSampleBots(k - 1),
                SampleBots[k].bot_name, SampleBots[k].config)

----------------------------------------------------------------------------
(* State machine                                                            *)

Row(date, close, buy, sell) ==
    [date |-> date, close |-> close, buy_signal |-> buy, sell_signal |-> sell]

\* Backtester.__init__, and BotManager.__init__ with its LogManager
Init ==
    /\ initial_balance \in InitialBalances
    /\ current_balance = initial_balance
    /\ positions = EmptyDict
    /\ trades = <<>>
    /\ equity_curve = <<>>
    /\ pc = "idle"
    /\ fetch = NotCalled
    /\ strategy = NotCalled
    /\ n = 0
    /\ i = 0
    /\ bar = None
    /\ result = None
    /\ reused = FALSE
    /\ frame = None
    /\ calls = 0
    /\ LET m == InitializeSampleBots(Len(SampleBots))
       IN /\ bots = m.bots
          /\ bot_threads = m.bot_threads
          /\ bot_timers = m.bot_timers
          /\ logs = m.logs
          /\ logged = m.logged
          /\ emitted = m.emitted
    /\ call = None

\* run_backtest: f"Backtest failed: {str(e)}" for the exceptions of the model
FailureMessage(cause) ==
    CASE cause = "fetch" -> "Backtest failed: data source error"
      [] cause = "strategy" -> "Backtest failed: strategy error"
      [] cause = "row" -> "Backtest failed: KeyError(date)"
      [] cause = "buy_signal" -> "Backtest failed: boolean value of NA is ambiguous (buy_signal)"
      [] cause = "sell_signal" -> "Backtest failed: boolean value of NA is ambiguous (sell_signal)"

FailureMessages ==
    {FailureMessage(c) : c \in {"fetch", "strategy", "row", "buy_signal", "sell_signal"}}

\* mutant of GetHistoricalData: an exception of the data source is not caught
GetHistoricalDataUncaught(outcome, len) ==
    CASE outcome = "ok" -> [raised |-> FALSE, len |-> len]
      [] outcome = "empty" -> [raised |-> FALSE, len |-> 0]
      [] outcome = "raise" -> [raised |-> TRUE, len |-> 0]

\* Backtester._get_historical_data: what it hands to run_backtest when the
\* source returns len bars ("ok"), returns nothing ("empty") or raises ("raise")
GetHistoricalData(outcome, len) ==
    CASE outcome = "ok" -> [raised |-> FALSE, len |-> len]
      [] outcome = "empty" -> [raised |-> FALSE, len |-> 0]
      [] outcome = "raise" -> [raised |-> FALSE, len |-> 0]

\* mutant of InitializeBacktest: the positions are not cleared
InitializeBacktestKeepsPositions ==
    /\ current_balance' = initial_balance
    /\ positions' = positions
    /\ trades' = <<>>
    /\ equity_curve' = <<>>

\* _initialize_backtest
InitializeBacktest ==
    /\ current_balance' = initial_balance
    /\ positions' = EmptyDict
    /\ trades' = <<>>
    /\ equity_curve' = <<>>

\* mutant of RunBacktestNoData: the state is reset before the data is looked at
RunBacktestNoDataAfterReset(outcome) ==
    /\ pc = "idle"
    /\ outcome \in {"empty", "raise"}
    /\ fetch' = outcome
    /\ InitializeBacktest
    /\ strategy' = NotCalled
    /\ n' = 0
    /\ i' = 0
    /\ bar' = None
    /\ result' = [error |-> "No data available"]
    /\ reused' = (reused \/ fetch = "ok")
    /\ UNCHANGED <<initial_balance, pc, frame, calls, manager>>

\* run_backtest when _get_historical_data yields an empty frame, either
\* because the source returned nothing or because it raised
RunBacktestNoData(outcome) ==
    /\ pc = "idle"
    /\ outcome \in {"empty", "raise"}
    /\ fetch' = outcome
    /\ strategy' = NotCalled
    /\ LET data == GetHistoricalData(outcome, 0)
       IN /\ n' = data.len
          /\ result' = IF data.raised
                       THEN [error |-> FailureMessage("fetch")]
                       ELSE [error |-> "No data available"]
    /\ i' = 0
    /\ bar' = None
    /\ reused' = (reused \/ fetch = "ok")
    /\ UNCHANGED <<initial_balance, current_balance, positions, trades,
                   equity_curve, pc, frame, calls, manager>>

\* run_backtest with len bars of data, when generate_signals raises
RunBacktestStrategyFails(len) ==
    /\ pc = "idle"
    /\ len >= 1
    /\ fetch' = "ok"
    /\ InitializeBacktest
    /\ strategy' = "raise"
    /\ n' = GetHistoricalData("ok", len).len
    /\ i' = 0
    /\ bar' = None
    /\ result' = [error |-> FailureMessage("strategy")]
    /\ reused' = (reused \/ fetch = "ok")
    /\ UNCHANGED <<initial_balance, pc, frame, calls, manager>>

\* run_backtest with len bars of data, up to the entry of _execute_trades
RunBacktestBegin(len) ==
    /\ pc = "idle"
    /\ len >= 1
    /\ fetch' = "ok"
    /\ InitializeBacktest
    /\ strategy' = "ok"
    /\ n' = GetHistoricalData("ok", len).len
    /\ i' = 0
    /\ bar' = None
    /\ result' = None
    /\ pc' = "loop"
    /\ reused' = (reused \/ fetch = "ok")
    /\ UNCHANGED <<initial_balance, frame, calls, manager>>

\* one iteration of the loop of _execute_trades
ProcessBar(close, buy, sell) ==
    /\ pc = "loop"
    /\ i < n
    /\ bar' = Row(i, close, buy, sell)
    /\ i' = i + 1
    /\ IF Skipped(i)
       THEN UNCHANGED book
       ELSE LET pf2 == BarTrades(Portfolio(current_balance, positions, trades),
                                     i, close, buy, sell)
            IN /\ current_balance' = pf2.balance
               /\ positions' = pf2.positions
               /\ trades' = pf2.trades
               /\ equity_curve' = UpdateEquityCurve(equity_curve, pf2, i, close)
    /\ UNCHANGED <<initial_balance, pc, fetch, strategy, n, result, reused, frame, calls, manager>>

\* mutant of ProcessBarRaises: the exception leaves run_backtest uncaught, the
\* caller gets no return value
ProcessBarRaisesUncaught(close, buy, cause) ==
    /\ pc = "loop"
    /\ i < n
    /\ ~Skipped(i)
    /\ cause \in {"row", "buy_signal", "sell_signal"}
    /\ IF cause = "sell_signal"
       THEN LET pf1 == BarTrades(Portfolio(current_balance, positions, trades),
                                 i, close, buy, FALSE)
            IN /\ current_balance' = pf1.balance
               /\ positions' = pf1.positions
               /\ trades' = pf1.trades
               /\ bar' = [date |-> i, close |-> close, buy_signal |-> buy,
                          raised |-> cause]
       ELSE /\ UNCHANGED <<current_balance, positions, trades>>
            /\ bar' = [date |-> i, raised |-> cause]
    /\ result' = None
    /\ pc' = "idle"
    /\ UNCHANGED <<initial_balance, equity_curve, fetch, strategy, n, i,
                   reused, frame, calls, manager>>

\* an iteration of the loop of _execute_trades that raises: the row's date
\* is not in data (line 101), or its buy_signal (line 104) or its
\* sell_signal (line 108, after the buy check) is pd.NA, which has no truth
\* value; run_backtest catches the exception and returns
ProcessBarRaises(close, buy, cause) ==
    /\ pc = "loop"
    /\ i < n
    /\ ~Skipped(i)
    /\ cause \in {"row", "buy_signal", "sell_signal"}
    /\ IF cause = "sell_signal"
       THEN LET pf1 == BarTrades(Portfolio(current_balance, positions, trades),
                                 i, close, buy, FALSE)
            IN /\ current_balance' = pf1.balance
               /\ positions' = pf1.positions
               /\ trades' = pf1.trades
               /\ bar' = [date |-> i, close |-> close, buy_signal |-> buy,
                          raised |-> cause]
       ELSE /\ UNCHANGED <<current_balance, positions, trades>>
            /\ bar' = [date |-> i, raised |-> cause]
    /\ result' = [error |-> FailureMessage(cause)]
    /\ pc' = "idle"
    /\ UNCHANGED <<initial_balance, equity_curve, fetch, strategy, n, i,
                   reused, frame, calls, manager>>

\* end of the loop, _calculate_performance and the return of run_backtest
RunBacktestFinish ==
    /\ pc = "loop"
    /\ i = n
    /\ result' = CalculatePerformance(initial_balance, equity_curve, trades)
    /\ pc' = "idle"
    /\ UNCHANGED <<initial_balance, current_balance, positions, trades,
                   equity_curve, fetch, strategy, n, i, bar, reused, frame, calls, manager>>

Next ==
    \/ \E outcome \in {"empty", "raise"} : RunBacktestNoData(outcome)
    \/ \E len \in 1..MaxBars : RunBacktestStrategyFails(len)
    \/ \E len \in 1..MaxBars : RunBacktestBegin(len)
    \/ \E close \in Closes, buy \in BOOLEAN, sell \in BOOLEAN :
           ProcessBar(close, buy, sell)
    \/ \E close \in Closes, buy \in BOOLEAN,
          cause \in {"row", "buy_signal", "sell_signal"} :
           ProcessBarRaises(close, buy, cause)
    \/ RunBacktestFinish

Spec == Init /\ [][Next]_vars

----------------------------------------------------------------------------
(* The flat-price scenario: every close is 100, the strategy signals one    *)
(* buy, on bar FlatBuyIndex, and no sell; the data source returns at least  *)
(* the warm-up and two more bars.                                           *)

FlatLengths == (WarmUp + 2)..FlatBars

NextFlat ==
    \/ \E len \in FlatLengths : RunBacktestBegin(len)
    \/ ProcessBar(100, i = FlatBuyIndex, FALSE)
    \/ RunBacktestFinish

InitFlat == Init /\ initial_balance = 100000

SpecFlat == InitFlat /\ [][NextFlat]_vars

----------------------------------------------------------------------------
(* The Indicator Calculator on its own: a history is fetched once and       *)
(* _add_technical_indicators works on it, once as _get_historical_data      *)
(* does and then again on the frame it returned.                            *)

\* a history of `length` bars that closes at c1 on its first `at` bars and
\* at c2 afterwards
StepHistory(length, at, c1, c2) ==
    [k \in 1..length |-> IF k <= at THEN c1 ELSE c2]

\* a history that closes at c1 and c2 in turn
AlternatingHistory(length, c1, c2) ==
    [k \in 1..length |-> IF k % 2 = 1 THEN c1 ELSE c2]

Histories ==
    UNION {{StepHistory(length, at, c1, c2) :
                at \in 0..length, c1 \in Closes, c2 \in Closes}
           \cup {AlternatingHistory(length, c1, c2) :
                     c1 \in Closes, c2 \in Closes}
           : length \in 0..MaxHistory}

\* ticker.history(...): a frame with the price columns and no indicator
TickerHistory(closes) ==
    /\ frame = None
    /\ frame' = [Close |-> closes]
    /\ calls' = 0
    /\ UNCHANGED <<initial_balance, book, pc, fetch, strategy, n, i, bar,
                   result, reused, manager>>

\* _add_technical_indicators(data) on a frame that is not empty
\* (_get_historical_data returns before it for an empty one)
AddIndicators ==
    /\ frame # None
    /\ frame.Close # <<>>
    /\ calls < MaxCalls
    /\ frame' = AddTechnicalIndicators(frame)
    /\ calls' = calls + 1
    /\ UNCHANGED <<initial_balance, book, pc, fetch, strategy, n, i, bar,
                   result, reused, manager>>

NextIndicators ==
    \/ \E closes \in Histories : TickerHistory(closes)
    \/ AddIndicators

SpecIndicators == Init /\ [][NextIndicators]_vars

----------------------------------------------------------------------------
(* The BotManager: its methods are called, one call at a time, by the       *)
(* user interface, and the timers of the running bots time out.             *)

\* bot names the callers pass: a sample bot, and a name that is new
BotNames == {"AAPL_MA_Bot", "NEW_Bot"}

\* config dicts the callers pass
Configs == {EmptyDict, [active |-> TRUE], [symbol |-> "MSFT"]}

\* random.choice(["BUY", "SELL"])
TradeTypes == {"BUY", "SELL"}

\* the fields of the manager before a call
Manager ==
    [bots |-> bots, bot_threads |-> bot_threads, bot_timers |-> bot_timers,
     logs |-> logs, logged |-> logged, emitted |-> emitted, raised |-> FALSE]

\* the log has room for the entries of another call
Room == Len(GeneralLogs(logs)) < Len(SampleBots) + MaxManagerLogs

\* the call `op` on bot_name leaves the manager as m
Returns(op, bot_name, m) ==
    /\ bots' = m.bots
    /\ bot_threads' = m.bot_threads
    /\ bot_timers' = m.bot_timers
    /\ logs' = m.logs
    /\ logged' = m.logged
    /\ emitted' = m.emitted
    /\ call' = [op |-> op, bot_name |-> bot_name, raised |-> m.raised]
    /\ UNCHANGED backtester

AddBotCall(bot_name, config) ==
    /\ Room
    /\ Returns("add_bot", bot_name, AddBot(Manager, bot_name, config))

RemoveBotCall(bot_name) ==
    /\ Room
    /\ Returns("remove_bot", bot_name, RemoveBot(Manager, bot_name))

StartBotCall(bot_name) ==
    /\ Room
    /\ Returns("start_bot", bot_name, StartBot(Manager, bot_name))

StopBotCall(bot_name) ==
    /\ Room
    /\ Returns("stop_bot", bot_name, StopBot(Manager, bot_name))

StartAllBotsCall ==
    /\ Room
    /\ Returns("start_all_bots", NoBot, StartAllBots(Manager))

StopAllBotsCall ==
    /\ Room
    /\ Returns("stop_all_bots", NoBot, StopAllBots(Manager))

GetBotCall(bot_name) ==
    /\ bot_name \in BotNames
    /\ Returns("get_bot", bot_name, GetBot(Manager, bot_name))

UpdateBotConfigCall(bot_name, config) ==
    /\ Room
    /\ Returns("update_bot_config", bot_name,
               UpdateBotConfig(Manager, bot_name, config))

\* _update_bot handles a tick for bot_name
Tick(bot_name, trade, trade_type) ==
    /\ Room
    /\ Returns("_update_bot", bot_name,
               UpdateBot(Manager, bot_name, trade, trade_type))

\* the timer that start_bot started for bot_name times out
TimerTimeout(bot_name, trade, trade_type) ==
    /\ bot_name \in bot_timers
    /\ Tick(bot_name, trade, trade_type)

NextBots ==
    \/ \E bot_name \in BotNames, config \in Configs : AddBotCall(bot_name, config)
    \/ \E bot_name \in BotNames : RemoveBotCall(bot_name)
    \/ \E bot_name \in BotNames : StartBotCall(bot_name)
    \/ \E bot_name \in BotNames : StopBotCall(bot_name)
    \/ StartAllBotsCall
    \/ StopAllBotsCall
    \/ \E bot_name \in BotNames : GetBotCall(bot_name)
    \/ \E bot_name \in BotNames, config \in Configs :
           UpdateBotConfigCall(bot_name, config)
    \/ \E bot_name \in BotNames, trade \in BOOLEAN, trade_type \in TradeTypes :
           TimerTimeout(bot_name, trade, trade_type)

InitBots == Init /\ initial_balance = DefaultInitialBalance

SpecBots == InitBots /\ [][NextBots]_vars

----------------------------------------------------------------------------
(* Ticks interleaved with start_bot, stop_bot and remove_bot: a tick may    *)
(* be handled at any time, whatever the state of the bot's timer.           *)

NextTicks ==
    \/ \E bot_name \in BotNames : StartBotCall(bot_name)
    \/ \E bot_name \in BotNames : StopBotCall(bot_name)
    \/ \E bot_name \in BotNames : RemoveBotCall(bot_name)
    \/ \E bot_name \in BotNames, trade \in BOOLEAN, trade_type \in TradeTypes :
           Tick(bot_name, trade, trade_type)

SpecTicks == InitBots /\ [][NextTicks]_vars

----------------------------------------------------------------------------
(* The LogManager on its own: log_info, log_warning, log_error and          *)
(* log_debug are called with a message that tells the calls apart. The      *)
(* first calls choose their level and bot_name freely; the later calls      *)
(* repeat those of the call before them.                                    *)

\* bot names the callers of the log methods pass
LogNames == {NoBot, "AAPL_MA_Bot", GeneralList}

LogLevels == {"INFO", "ERROR"}

\* the number of calls of _log so far
LogCalls == Len(logged[GeneralList])

\* log_<level>(message, bot_name)
LogCall(level, bot_name) ==
    /\ LogCalls < Len(SampleBots) + MaxLogCalls
    /\ \/ LogCalls < Len(SampleBots) + FreeLogCalls
       \/ /\ level = Last(logged[GeneralList]).level
          /\ bot_name = Last(logged[GeneralList]).bot_name
    /\ LET message == ToString(LogCalls + 1)
       IN /\ logs' = Log(logs, level, message, bot_name)
          /\ logged' = Recorded(logged, level, message, bot_name)
    /\ call' = [op |-> "_log", bot_name |-> bot_name, raised |-> FALSE]
    /\ UNCHANGED <<bots, bot_threads, bot_timers, emitted, backtester>>

NextLog == \E level \in LogLevels, bot_name \in LogNames : LogCall(level, bot_name)

SpecLog == InitBots /\ [][NextLog]_vars

----------------------------------------------------------------------------
(* Vocabulary of the properties                                             *)

\* this step is an iteration of the loop over a bar past the warm-up;
\* bar' is the bar's row
ProcessedStep == pc = "loop" /\ i >= WarmUp /\ i' = i + 1

\* this step is an iteration of the loop over a warm-up bar
WarmUpStep == pc = "loop" /\ i < WarmUp /\ i' = i + 1

Held == IndexName \in DOMAIN positions

HeldQuantity == IF Held THEN positions[IndexName].quantity ELSE 0

HeldCost == IF Held THEN positions[IndexName].cost ELSE 0

\* in a ProcessedStep: the bar's buy is attempted and can be paid
BuyFilled == bar'.buy_signal /\ bar'.close * FixedQuantity <= current_balance

\* in a ProcessedStep: the bar's buy is attempted and cannot be paid
BuyUnaffordable == bar'.buy_signal /\ bar'.close * FixedQuantity > current_balance

\* in a ProcessedStep: the bar's sell signal finds a Position
SellFilled == bar'.sell_signal /\ (Held \/ BuyFilled)

\* in a ProcessedStep: quantity and cost basis of the Position the sell finds
QuantityAtSell == HeldQuantity + (IF BuyFilled THEN FixedQuantity ELSE 0)

CostAtSell == HeldCost + (IF BuyFilled THEN bar'.close * FixedQuantity ELSE 0)

\* the last call ended in the handler of run_backtest for unexpected failures
RunFailed == IsError(result) /\ result.error \in FailureMessages

\* the loop has just processed a bar past the warm-up
BarProcessed == pc = "loop" /\ bar # None /\ bar.date >= WarmUp

----------------------------------------------------------------------------
(* C1: every sell the Trade Executor executes records a SELL trade whose    *)
(* pnl is (bar close x position quantity) - position cost basis, and the    *)
(* Position is absent right after the sell.                                 *)
C1_SellPnlAndPositionGone ==
    [][(ProcessedStep /\ SellFilled) =>
          /\ trades' # <<>>
          /\ Last(trades').side = "SELL"
          /\ Last(trades').date = bar'.date
          /\ Last(trades').pnl = bar'.close * QuantityAtSell - CostAtSell
          /\ IndexName \notin DOMAIN positions']_vars

\* a sell at 395 of 200 units bought at 100 and 395 has just been recorded
C1_Witness ==
    /\ BarProcessed
    /\ bar.sell_signal
    /\ trades # <<>>
    /\ Last(trades).side = "SELL"
    /\ Last(trades).date = bar.date
    /\ Last(trades).quantity = 2 * FixedQuantity
    /\ Last(trades).pnl = 395 * 200 - (100 * 100 + 395 * 100)
    /\ positions = EmptyDict

----------------------------------------------------------------------------
(* C2, as stated: on every processed bar whose buy cannot be paid, cash and *)
(* Position are the same after the bar as before it.                        *)
C2_UnaffordableBuyFreezesBar ==
    [][(ProcessedStep /\ BuyUnaffordable) =>
          /\ current_balance' = current_balance
          /\ positions' = positions]_vars

(* C2, amended: on every processed bar whose buy cannot be paid, the buy    *)
(* changes nothing: cash, Position and trade log are the same after the bar *)
(* as before it, unless the bar also carries a sell signal while a Position *)
(* exists; that sell then liquidates the Position as on a bar without a buy *)
(* signal.                                                                  *)
C2_UnaffordableBuyChangesNothing ==
    [][(ProcessedStep /\ BuyUnaffordable) =>
          IF bar'.sell_signal /\ Held
          THEN /\ current_balance' = current_balance + bar'.close * HeldQuantity
               /\ positions' = EmptyDict
               /\ Len(trades') = Len(trades) + 1
               /\ SubSeq(trades', 1, Len(trades)) = trades
               /\ Last(trades').side = "SELL"
          ELSE /\ current_balance' = current_balance
               /\ positions' = positions
               /\ trades' = trades]_vars

\* a bar with a buy signal at 395 has just been processed with 21000 of cash
\* and 200 units held: nothing was bought
C2_Witness ==
    /\ BarProcessed
    /\ bar.buy_signal
    /\ ~bar.sell_signal
    /\ bar.close * FixedQuantity > current_balance
    /\ Held
    /\ Last(trades).date < bar.date
    /\ Last(equity_curve).date = bar.date

----------------------------------------------------------------------------
(* C3: on a processed bar with both signals set and the buy affordable, the *)
(* trade log gains a BUY immediately followed by a SELL whose quantity      *)
(* includes the 100 units just bought, and no Position exists at the end of *)
(* the bar.                                                                 *)
C3_BuyThenSell ==
    [][(ProcessedStep /\ BuyFilled /\ bar'.sell_signal) =>
          /\ Len(trades') = Len(trades) + 2
          /\ SubSeq(trades', 1, Len(trades)) = trades
          /\ trades'[Len(trades) + 1].side = "BUY"
          /\ trades'[Len(trades) + 1].quantity = 100
          /\ trades'[Len(trades) + 1].date = bar'.date
          /\ trades'[Len(trades) + 2].side = "SELL"
          /\ trades'[Len(trades) + 2].quantity = HeldQuantity + 100
          /\ trades'[Len(trades) + 2].date = bar'.date
          /\ IndexName \notin DOMAIN positions']_vars

\* a bar with both signals has just added 100 units to 100 held and sold 200
C3_Witness ==
    /\ BarProcessed
    /\ bar.buy_signal /\ bar.sell_signal
    /\ Len(trades) >= 3
    /\ trades[Len(trades) - 1].side = "BUY"
    /\ trades[Len(trades) - 1].date = bar.date
    /\ Last(trades).side = "SELL"
    /\ Last(trades).date = bar.date
    /\ Last(trades).quantity = 200
    /\ positions = EmptyDict

----------------------------------------------------------------------------
(* C4: the first 50 bars are skipped whatever their signals: processing one *)
(* appends no Trade and no EquityPoint and leaves cash and Position         *)
(* unchanged.                                                               *)
C4_WarmUpSkipped ==
    [][WarmUpStep =>
          /\ trades' = trades
          /\ equity_curve' = equity_curve
          /\ current_balance' = current_balance
          /\ positions' = positions]_vars

\* the last warm-up bar carried both signals and left the books untouched
C4_Witness ==
    /\ pc = "loop"
    /\ i = WarmUp
    /\ bar # None
    /\ bar.date = WarmUp - 1
    /\ bar.buy_signal /\ bar.sell_signal
    /\ trades = <<>>
    /\ equity_curve = <<>>
    /\ current_balance = initial_balance
    /\ positions = EmptyDict

----------------------------------------------------------------------------
(* C5: every processed bar appends exactly one EquityPoint, traded or not   *)
(* and also when its buy could not be paid: while a run simulates, the      *)
(* curve holds one point per bar visited past the warm-up, in the order of  *)
(* the bars, and after a run over n bars it holds max(0, n - 50) points.    *)
C5_OnePointPerProcessedBar ==
    (fetch = "ok" /\ strategy = "ok") =>
        /\ Len(equity_curve) = Max(0, i - WarmUp)
        /\ \A k \in 1..Len(equity_curve) : equity_curve[k].date = WarmUp + k - 1
        /\ (pc = "idle" /\ ~RunFailed) => Len(equity_curve) = Max(0, n - 50)


\* a run over 54 bars has ended with 4 points, the last one for a bar whose
\* buy could not be paid
C5_Witness ==
    /\ pc = "idle"
    /\ fetch = "ok" /\ strategy = "ok"
    /\ ~RunFailed
    /\ n = WarmUp + 4
    /\ Len(equity_curve) = 4
    /\ bar.buy_signal
    /\ ~bar.sell_signal
    /\ bar.close * FixedQuantity > current_balance
    /\ trades # <<>>
    /\ Last(trades).date < bar.date
    /\ Last(equity_curve).date = bar.date

----------------------------------------------------------------------------
(* C6: the flat scenario over 60 bars (every close 100, one buy signal, on  *)
(* bar 51, no sell signal, lot of 100, 100000 of starting cash) ends with a *)
(* Position of 100 units at an average price of 100 and 90000 of cash, and  *)
(* every EquityPoint from the bar of the buy onward has equity 100000.      *)
C6_FlatScenario ==
    (pc = "idle" /\ result # None /\ n = FlatBars) =>
        /\ DOMAIN positions = {IndexName}
        /\ positions[IndexName].quantity = 100
        /\ positions[IndexName].avg_price = <<100, 1>>
        /\ current_balance = 90000
        /\ Len(equity_curve) = FlatBars - WarmUp
        /\ \A k \in 1..Len(equity_curve) :
               equity_curve[k].date >= FlatBuyIndex =>
                   equity_curve[k].equity = 100000
        /\ ~IsError(result)
        /\ result.final_balance = 100000

\* the run over the 60 flat bars has returned, its one trade the buy
C6_Witness ==
    /\ pc = "idle"
    /\ result # None
    /\ n = FlatBars
    /\ initial_balance = 100000
    /\ Len(trades) = 1
    /\ trades[1].side = "BUY"
    /\ trades[1].date = FlatBuyIndex
    /\ trades[1].price = 100
    /\ Last(equity_curve).date = FlatBars - 1

----------------------------------------------------------------------------
(* C7: a run that leaves no EquityPoint (no price data, or 50 bars or       *)
(* fewer) returns a labeled failure, a map with an 'error' entry, never a   *)
(* report; when the Performance Evaluator is reached with an empty curve    *)
(* the failure is its "No equity curve data".                               *)
C7_EmptyCurveIsLabeledFailure ==
    (pc = "idle" /\ fetch # NotCalled /\ (fetch # "ok" \/ n <= 50)) =>
        /\ IsError(result)
        /\ DOMAIN result = {"error"}
        /\ (fetch = "ok" /\ strategy = "ok") =>
               /\ equity_curve = <<>>
               /\ result.error = "No equity curve data"

\* a run over exactly 50 bars has returned from the Performance Evaluator
C7_Witness ==
    /\ pc = "idle"
    /\ fetch = "ok" /\ strategy = "ok"
    /\ n = 50
    /\ i = 50
    /\ bar.buy_signal
    /\ equity_curve = <<>>
    /\ result = [error |-> "No equity curve data"]

----------------------------------------------------------------------------
(* C8: a call whose data source yields nothing returns a labeled failure    *)
(* without simulating: generate_signals is not called, and cash balance,    *)
(* positions, trades and equity curve are left as they were before the call *)
C8_NoDataAbortsBeforeSimulation ==
    [][(pc = "idle" /\ fetch' \in {"empty", "raise"}) =>
          /\ IsError(result')
          /\ strategy' = NotCalled
          /\ pc' = "idle"
          /\ current_balance' = current_balance
          /\ positions' = positions
          /\ trades' = trades
          /\ equity_curve' = equity_curve]_vars

\* a call found no data after a run that had left a Position, trades and an
\* equity curve: all are still there
C8_Witness ==
    /\ pc = "idle"
    /\ fetch = "empty"
    /\ strategy = NotCalled
    /\ result = [error |-> "No data available"]
    /\ Held
    /\ trades # <<>>
    /\ equity_curve # <<>>
    /\ current_balance < initial_balance

----------------------------------------------------------------------------
\* avg_price = numerator / denominator, so avg_price x quantity = cost reads
\* numerator x quantity = cost x denominator
C9_AvgPriceTimesQuantityIsCost ==
    \A s \in DOMAIN positions :
        /\ positions[s].quantity > 0
        /\ positions[s].avg_price[1] * positions[s].quantity
               = positions[s].cost * positions[s].avg_price[2]

\* the effect of a loop iteration whose buy can be paid
C9_BuyStep ==
    (ProcessedStep /\ BuyFilled) =>
        LET cost == bar'.close * 100 IN
        /\ Len(trades') >= Len(trades) + 1
        /\ SubSeq(trades', 1, Len(trades)) = trades
        /\ trades'[Len(trades) + 1] =
               [date |-> bar'.date, symbol |-> IndexName, side |-> "BUY",
                quantity |-> 100, price |-> bar'.close, cost |-> cost]
        /\ IF bar'.sell_signal
           THEN /\ Len(trades') = Len(trades) + 2
                /\ Last(trades').quantity = HeldQuantity + 100
                /\ Last(trades').revenue - Last(trades').pnl = HeldCost + cost
                /\ current_balance' = current_balance - cost + Last(trades').revenue
           ELSE /\ Len(trades') = Len(trades) + 1
                /\ current_balance' = current_balance - cost
                /\ DOMAIN positions' = {IndexName}
                /\ positions'[IndexName].quantity = HeldQuantity + 100
                /\ positions'[IndexName].cost = HeldCost + cost

----------------------------------------------------------------------------
RECURSIVE BoughtSince(_, _)
\* the quantities of the BUY trades ts[k], ts[k-1], ... down to the last SELL
BoughtSince(ts, k) ==
    IF k = 0 THEN 0
    ELSE IF ts[k].side = "SELL" THEN 0
    ELSE ts[k].quantity + BoughtSince(ts, k - 1)

\* every SELL of the trade log sold all that was bought since the SELL before
C10_SellsAreWhole ==
    \A k \in 1..Len(trades) :
        trades[k].side = "SELL" =>
            /\ trades[k].quantity = BoughtSince(trades, k - 1)
            /\ trades[k].quantity > 0
            /\ trades[k].revenue = trades[k].price * trades[k].quantity
            /\ (k = Len(trades) => ~Held)

\* the effect of a loop iteration whose sell signal finds a Position
C10_SellStep ==
    (ProcessedStep /\ SellFilled) =>
        /\ Last(trades').side = "SELL"
        /\ Last(trades').price = bar'.close
        /\ Last(trades').quantity = QuantityAtSell
        /\ current_balance' =
               current_balance
               - (IF BuyFilled THEN bar'.close * FixedQuantity ELSE 0)
               + bar'.close * Last(trades').quantity
        /\ ~Held'

(* C10: a sell liquidates the whole Position at the bar's close: a SELL     *)
(* trade's quantity is the sum of the quantities of the BUY trades since    *)
(* the previous SELL (or the start of the run), cash increases by close x   *)
(* that quantity, and nothing of the Position is left.                      *)
C10_SellLiquidatesEverything ==
    [](C10_SellsAreWhole) /\ [][C10_SellStep]_vars

\* 300 units bought on three bars were sold in one SELL on the fourth
C10_Witness ==
    /\ BarProcessed
    /\ ~bar.buy_signal
    /\ bar.sell_signal
    /\ Len(trades) = 4
    /\ trades[1].side = "BUY" /\ trades[2].side = "BUY" /\ trades[3].side = "BUY"
    /\ trades[4].side = "SELL"
    /\ trades[4].quantity = 300
    /\ trades[4].date = bar.date
    /\ current_balance = initial_balance + trades[4].pnl
    /\ positions = EmptyDict

----------------------------------------------------------------------------
(* C11: a sell signal on a processed bar while no Position exists is        *)
(* ignored: cash balance, positions and trade list are what they were, no   *)
(* error is produced and the run goes on.                                   *)
C11_SellWithoutPositionIgnored ==
    [][(ProcessedStep /\ bar'.sell_signal /\ ~Held /\ ~BuyFilled) =>
          /\ current_balance' = current_balance
          /\ positions' = positions
          /\ trades' = trades
          /\ pc' = "loop"
          /\ result' = None]_vars

\* a bar with a sell signal only has just been processed by a run that never
\* bought
C11_Witness ==
    /\ BarProcessed
    /\ bar.sell_signal
    /\ ~bar.buy_signal
    /\ trades = <<>>
    /\ positions = EmptyDict
    /\ current_balance = initial_balance
    /\ Last(equity_curve).date = bar.date
    /\ result = None

----------------------------------------------------------------------------
(* C12: the EquityPoint of a processed bar records balance = the cash       *)
(* balance after the bar's buy and sell steps, and portfolio value = equity *)
(* = that cash balance + Position quantity x the bar's close (the cash      *)
(* balance alone when no Position exists).                                  *)
C12_EquityPointMarksToClose ==
    [][ProcessedStep =>
          /\ equity_curve' # <<>>
          /\ Last(equity_curve').date = bar'.date
          /\ Last(equity_curve').balance = current_balance'
          /\ Last(equity_curve').portfolio_value =
                 current_balance'
                 + (IF IndexName \in DOMAIN positions'
                    THEN positions'[IndexName].quantity * bar'.close
                    ELSE 0)
          /\ Last(equity_curve').equity = Last(equity_curve').portfolio_value]_vars

\* 100 units bought at 100 are held over a bar closing at 395
C12_Witness ==
    /\ BarProcessed
    /\ Held
    /\ positions[IndexName].quantity = 100
    /\ positions[IndexName].cost = 10000
    /\ bar.close = 395
    /\ Last(equity_curve).date = bar.date
    /\ Last(equity_curve).balance = 90000
    /\ Last(equity_curve).equity = 129500

----------------------------------------------------------------------------
\* the pnl of the SELL trades among ts[1..k]
RECURSIVE RealizedPnl(_, _)
RealizedPnl(ts, k) ==
    IF k = 0 THEN 0
    ELSE (IF ts[k].side = "SELL" THEN ts[k].pnl ELSE 0) + RealizedPnl(ts, k - 1)

\* this step is a call or a loop iteration in which an exception is raised:
\* by generate_signals, or by the lookup of a malformed row
FailureStep ==
    \/ pc = "idle" /\ strategy' = "raise"
    \/ pc = "loop" /\ "raised" \in DOMAIN bar'

(* C13: an exception raised during a run, by generate_signals or by trade   *)
(* execution, is returned by run_backtest as a failure result with a        *)
(* message naming it, and no exception reaches the caller; the failed run   *)
(* leaves the Backtester usable: its starting balance is untouched, the     *)
(* books it leaves are those of the bars executed so far (cash + cost basis *)
(* = starting balance + realized pnl, one EquityPoint per bar completed).   *)
C13_FailureIsReturnedAndContained ==
    [][FailureStep =>
          /\ pc' = "idle"
          /\ IsError(result')
          /\ DOMAIN result' = {"error"}
          /\ result'.error =
                 FailureMessage(IF pc = "idle" THEN "strategy" ELSE bar'.raised)
          /\ initial_balance' = initial_balance
          /\ current_balance'
                 + (IF IndexName \in DOMAIN positions'
                    THEN positions'[IndexName].cost ELSE 0)
             = initial_balance + RealizedPnl(trades', Len(trades'))
          /\ Len(equity_curve') = Max(0, i' - WarmUp)
          /\ \A k \in 1..Len(equity_curve') :
                 equity_curve'[k].date = WarmUp + k - 1]_vars

\* the sell_signal lookup of a bar raised after the bar's buy had been
\* executed: the run returned the failure, the books hold the buy
C13_Witness ==
    /\ pc = "idle"
    /\ RunFailed
    /\ "raised" \in DOMAIN bar
    /\ bar.raised = "sell_signal"
    /\ bar.buy_signal
    /\ trades # <<>>
    /\ Last(trades).side = "BUY"
    /\ Last(trades).date = bar.date
    /\ Len(equity_curve) = 2
    /\ Held

----------------------------------------------------------------------------
(* C14: when the historical data source returns nothing and when it raises, *)
(* _get_historical_data yields an empty dataset and run_backtest returns    *)
(* the labeled failure "No data available"; nothing is raised.              *)
C14_EmptyAndRaisingSourceAlike ==
    [][(pc = "idle" /\ fetch' \in {"empty", "raise"}) =>
          /\ n' = 0
          /\ result' = [error |-> "No data available"]
          /\ pc' = "idle"]_vars

\* a call whose data source raised has returned
C14_Witness ==
    /\ pc = "idle"
    /\ fetch = "raise"
    /\ n = 0
    /\ IsError(result)
    /\ result.error = "No data available"

----------------------------------------------------------------------------
(* Reports                                                                  *)

\* the last call has returned a performance report
Reported == pc = "idle" /\ result # None /\ ~IsError(result)

NonDecreasing(equity) == \A k \in 2..Len(equity) : equity[k - 1] <= equity[k]

\* the reported max_drawdown is a number <= 0, and 0 when the reported
\* equity never declines
DrawdownAsSpecified ==
    /\ ~IsNaN(result.max_drawdown)
    /\ ~Less(Zero, result.max_drawdown)
    /\ NonDecreasing(EquityColumn(result.equity_curve)) =>
           result.max_drawdown = Zero

----------------------------------------------------------------------------
(* C15: for every non-empty equity curve the reported max_drawdown, the     *)
(* minimum over time of (equity - running peak) / running peak, is <= 0,    *)
(* and it is 0 when the equity curve is monotonically non-decreasing.       *)
C15_MaxDrawdownNeverPositive == Reported => DrawdownAsSpecified

\* the same for a Backtester constructed with a positive balance, whose
\* running peak is never 0; the drawdown is then the lowest of the ratios
C15_MaxDrawdownOfPositivePeak ==
    (Reported /\ initial_balance > 0) =>
        /\ DrawdownAsSpecified
        /\ LET equity == EquityColumn(result.equity_curve)
           IN /\ \E k \in 1..Len(equity) :
                     result.max_drawdown
                         = NpDiv(equity[k] - CumMax(equity)[k], CumMax(equity)[k])
              /\ \A k \in 1..Len(equity) :
                     ~Less(NpDiv(equity[k] - CumMax(equity)[k], CumMax(equity)[k]),
                           result.max_drawdown)

\* a run bought at 395 and closed lower: a drawdown below 0
C15_DeclineReported ==
    /\ Reported
    /\ initial_balance > 0
    /\ Less(result.max_drawdown, Zero)

\* a Backtester constructed with initial_balance = 0 has reported: its
\* equity is 0 on every bar and its max_drawdown is 0 / 0
C15_ZeroPeakReported ==
    /\ Reported
    /\ initial_balance = 0
    /\ NonDecreasing(EquityColumn(result.equity_curve))
    /\ IsNaN(result.max_drawdown)

----------------------------------------------------------------------------
(* C16: the reported sharpe_ratio is exactly 0 whenever the computed        *)
(* volatility is 0, including runs whose equity never changes; it is also   *)
(* exactly 0 when the volatility is undefined (NaN: fewer than two per-bar  *)
(* returns, or returns of a zero equity); when the volatility is greater    *)
(* than 0 it is annualized_return / volatility.                             *)

Quotient(num, den) == [kind |-> "quotient", num |-> num, den |-> den]

\* the equity of the report is the same on every bar
EquityNeverChanges ==
    \A k \in 1..Len(result.equity_curve) :
        result.equity_curve[k].equity = result.equity_curve[1].equity

\* C16 as stated: 0 for a volatility of 0, the quotient otherwise
C16_SharpeIsQuotientUnlessVolatilityZero ==
    Reported =>
        IF result.volatility.kind = "zero"
        THEN result.sharpe_ratio = [kind |-> "zero"]
        ELSE result.sharpe_ratio
                 = Quotient(result.annualized_return, result.volatility)

\* C16, amended: the sharpe_ratio is annualized_return / volatility when
\* the volatility is greater than 0 and exactly 0 when it is 0 or NaN
C16_SharpeIsZeroUnlessVolatilityPositive ==
    Reported =>
        /\ result.volatility.std_of
               = PctChange(EquityColumn(result.equity_curve))
        /\ result.annualized_return
               = Scaled(result.total_return, TradingDays,
                        Len(result.equity_curve))
        /\ IF result.volatility.kind = "positive"
           THEN result.sharpe_ratio
                    = Quotient(result.annualized_return, result.volatility)
           ELSE /\ result.volatility.kind \in {"zero", "nan"}
                /\ result.sharpe_ratio = [kind |-> "zero"]
        \* one or two points give no or one return: no deviation
        /\ Len(result.equity_curve) <= 2 => result.volatility.kind = "nan"
        /\ (Len(result.equity_curve) >= 3 /\ EquityNeverChanges
                /\ initial_balance > 0) =>
               result.volatility.kind = "zero"
        /\ (Len(result.equity_curve) >= 3 /\ ~EquityNeverChanges
                /\ initial_balance > 0) =>
               result.volatility.kind \in {"zero", "positive"}

\* a run of four processed bars whose equity never changed: volatility 0
C16_Witness ==
    /\ Reported
    /\ Len(result.equity_curve) = 4
    /\ EquityNeverChanges
    /\ result.volatility.kind = "zero"
    /\ result.sharpe_ratio = [kind |-> "zero"]
    /\ result.annualized_return = Zero

\* a run of one processed bar: the volatility is NaN, the Sharpe ratio 0
C16_UndefinedVolatilityReported ==
    /\ Reported
    /\ initial_balance > 0
    /\ Len(result.equity_curve) = 1
    /\ result.volatility.kind = "nan"
    /\ result.sharpe_ratio = [kind |-> "zero"]

\* a run whose equity moved: the Sharpe ratio is the quotient
C16_QuotientReported ==
    /\ Reported
    /\ result.volatility.kind = "positive"
    /\ result.sharpe_ratio.kind = "quotient"
    /\ Less(result.sharpe_ratio.num, Zero)

----------------------------------------------------------------------------
(* C17: the reported win_rate is the number of trades with positive         *)
(* realized P&L divided by the total trade count, BUY and SELL trades both  *)
(* counted in the denominator; it is 0 when the run made no trades and 0    *)
(* when the run made only buys.                                             *)

\* the trades of the report that realized a profit: profitable sells
Wins == {k \in 1..Len(result.trades) :
            result.trades[k].side = "SELL" /\ result.trades[k].pnl > 0}

OnlyBuys == \A k \in 1..Len(result.trades) : result.trades[k].side = "BUY"

\* C17: win_rate * total trade count = number of winning trades
C17_WinRateCountsAllTrades ==
    Reported =>
        /\ IsFinite(result.win_rate)
        /\ result.total_trades = Len(result.trades)
        /\ result.win_rate[1] * result.total_trades
               = Cardinality(Wins) * result.win_rate[2]
        /\ result.trades = <<>> => result.win_rate = Zero
        /\ OnlyBuys => result.win_rate = Zero

\* a run of one buy and one profitable sell: one winning trade of two
C17_Witness ==
    /\ Reported
    /\ Len(result.trades) = 2
    /\ result.trades[1].side = "BUY"
    /\ result.trades[2].side = "SELL"
    /\ result.trades[2].pnl > 0
    /\ result.win_rate = <<1, 2>>

\* a run that only bought
C17_OnlyBuysReported ==
    /\ Reported
    /\ result.trades # <<>>
    /\ OnlyBuys
    /\ result.win_rate = Zero

----------------------------------------------------------------------------
(* Vocabulary of the indicator properties                                   *)

\* the Indicator Calculator has worked on the frame
Augmented == frame # None /\ calls >= 1

Bars == Len(frame.Close)

\* the column of SMA_20, SMA_50 or RSI is null on every bar
AllNull(column) == \A k \in 1..Len(column) : IsNull(column[k])

\* the column of MACD or MACD_Signal is null on every bar
AllNullMeans(column) == \A k \in 1..Len(column) : IsNullMean(column[k])

----------------------------------------------------------------------------
(* C18: for every price sequence shorter than an indicator's lookback       *)
(* window (20 for SMA_20, 50 for SMA_50, 14 for RSI, 26 for MACD, 9 for the *)
(* MACD signal), that indicator is null on every bar of the sequence.       *)
C18_ShortHistoryHasNoIndicator ==
    Augmented =>
        /\ Bars < SmaShortWindow => AllNull(frame.SMA_20)
        /\ Bars < SmaLongWindow => AllNull(frame.SMA_50)
        /\ Bars < RsiWindow => AllNull(frame.RSI)
        /\ Bars < MacdSlowSpan => AllNullMeans(frame.MACD)
        /\ Bars < MacdSignalSpan => AllNullMeans(frame.MACD_Signal)

\* the part that holds: the rolling indicators are null on every bar of a
\* history shorter than their window, and on the first window - 1 bars of
\* a longer one; the moving averages have a value from there on
C18_RollingIndicatorsWaitForTheirWindow ==
    Augmented =>
        /\ \A k \in 1..Bars :
               /\ IsNull(frame.SMA_20[k]) <=> k < SmaShortWindow
               /\ IsNull(frame.SMA_50[k]) <=> k < SmaLongWindow
               /\ k < RsiWindow => IsNull(frame.RSI[k])
        /\ Bars < SmaShortWindow => AllNull(frame.SMA_20)
        /\ Bars < SmaLongWindow => AllNull(frame.SMA_50)
        /\ Bars < RsiWindow => AllNull(frame.RSI)

\* the exponentially weighted columns have a value on every bar
C18_MeansHaveAValueOnEveryBar ==
    Augmented =>
        \A k \in 1..Bars :
            /\ ~IsNullMean(frame.MACD[k])
            /\ ~IsNullMean(frame.MACD_Signal[k])

\* a history of one bar: the moving averages and the RSI are null, MACD
\* and its signal are the means of that one bar
C18_OneBarHasMacd ==
    /\ Augmented
    /\ Bars = 1
    /\ AllNull(frame.SMA_20)
    /\ AllNull(frame.SMA_50)
    /\ AllNull(frame.RSI)
    /\ frame.MACD[1].kind = "difference"
    /\ frame.MACD[1].minuend.upto = 1
    /\ frame.MACD_Signal[1].kind = "ewm"

\* a history of 50 bars or more: every indicator has a value on its last bar
C18_LongHistoryHasIndicators ==
    /\ Augmented
    /\ Bars >= SmaLongWindow
    /\ frame.SMA_50[SmaLongWindow] = <<495, 2>>
    /\ frame.SMA_20[SmaShortWindow] = <<495, 2>>
    /\ frame.RSI[RsiWindow] = <<700, 13>>
    /\ IsNull(frame.SMA_50[SmaLongWindow - 1])

----------------------------------------------------------------------------
(* C19: running the Indicator Calculator twice on the same price sequence   *)
(* yields identical indicator values for every bar: a run on a frame that   *)
(* an earlier run has augmented leaves every indicator column, and the      *)
(* closes, as they were, and leaves the Backtester alone; what a frame      *)
(* holds after any number of runs is what one run on a frame of its closes  *)
(* alone computes.                                                          *)
C19_SecondRunYieldsTheSameIndicators ==
    /\ [](Augmented =>
              /\ DOMAIN frame = IndicatorColumns \cup {"Close"}
              /\ frame = AddTechnicalIndicators([Close |-> frame.Close]))
    /\ [][(frame # None /\ calls >= 1 /\ calls' = calls + 1) =>
              /\ frame'.Close = frame.Close
              /\ \A c \in IndicatorColumns : frame'[c] = frame[c]
              /\ UNCHANGED <<initial_balance, book>>]_vars

\* the calculator has run twice on a history of alternating closes that is
\* long enough for every indicator
C19_Witness ==
    /\ frame # None
    /\ calls = 2
    /\ Bars >= SmaLongWindow
    /\ frame.Close[1] # frame.Close[2]
    /\ ~IsNull(frame.SMA_50[Bars])
    /\ ~IsNull(frame.RSI[Bars])
    /\ frame.MACD_Signal[Bars].of = "MACD"

----------------------------------------------------------------------------
(* C20: nothing carries over between runs: every call that reaches          *)
(* simulation enters the loop with cash = initial_balance, no Position, no  *)
(* trade and no EquityPoint, whatever earlier calls left behind; the state  *)
(* at loop entry is a function of initial_balance and the number of bars    *)
(* alone, so a run's report depends only on these and on the run's bars and *)
(* signals, and two runs over the same bars and signals return the same     *)
(* report. A report holds the trades and the curve of its own run only.     *)
C20_RunsStartFresh ==
    /\ (pc = "loop" /\ i = 0) =>
           /\ current_balance = initial_balance
           /\ positions = EmptyDict
           /\ trades = <<>>
           /\ equity_curve = <<>>
           /\ bar = None
           /\ result = None
           /\ fetch = "ok"
           /\ strategy = "ok"
    /\ (pc = "idle" /\ result # None /\ ~IsError(result)) =>
           /\ result.trades = trades
           /\ Len(result.equity_curve) = n - WarmUp
           /\ \A k \in 1..Len(trades) : trades[k].date \in WarmUp..(n - 1)

\* a Backtester that had run before enters the loop of a new run
C20_Witness ==
    /\ reused
    /\ pc = "loop"
    /\ i = 0
    /\ n = MaxBars
    /\ current_balance = initial_balance
    /\ trades = <<>>
    /\ equity_curve = <<>>

----------------------------------------------------------------------------
(* Vocabulary of the BotManager properties                                  *)

\* this step is the call `op` on bot_name
Called(op, bot_name) == call'.op = op /\ call'.bot_name = bot_name

\* bot_name is running when the call of this step begins
Running(bot_name) == IsBotActive(Manager, bot_name)

Exists(bot_name) == bot_name \in DOMAIN bots

\* the call of this step changes no bot: no configuration, timer or thread
NoBotChanged ==
    /\ bots' = bots
    /\ bot_timers' = bot_timers
    /\ bot_threads' = bot_threads

\* the call of this step appends exactly these entries to the general list
LogsExactly(entries) == GeneralLogs(logs') = GeneralLogs(logs) \o entries

----------------------------------------------------------------------------
(* C21: update_bot_config on a bot that is running raises an error and      *)
(* leaves that bot's configuration unchanged; a call of update_bot_config   *)
(* that changes a configuration is a call on a bot that is not running,     *)
(* and it merges the given dict into the configuration.                     *)
C21_NoConfigChangeWhileRunning ==
    [][\A bot_name \in BotNames :
           Called("update_bot_config", bot_name) =>
               /\ Running(bot_name) =>
                      /\ call'.raised
                      /\ NoBotChanged
                      /\ emitted' = emitted
               /\ (Exists(bot_name) /\ ~Running(bot_name)) =>
                      /\ ~call'.raised
                      /\ \E config \in Configs :
                             bots' = DictSet(bots, bot_name,
                                             Merge(bots[bot_name], config))
               /\ bots' # bots => ~Running(bot_name)]_vars

\* update_bot_config has just raised for a bot whose timer is running
C21_Witness ==
    /\ call # None
    /\ call.op = "update_bot_config"
    /\ call.raised
    /\ call.bot_name \in bot_timers
    /\ IsBotActive(Manager, call.bot_name)
    /\ Last(GeneralLogs(logs)).level = "ERROR"

----------------------------------------------------------------------------
(* C22: start_bot on a bot that is already running and stop_bot on a bot    *)
(* that is not running are no-ops apart from a logged warning: they create  *)
(* or destroy no timer or thread, emit no signal, leave the bot's           *)
(* configuration, its 'active' flag included, unchanged and do not raise.   *)
C22_RedundantStartAndStopOnlyWarn ==
    [][\A bot_name \in BotNames :
           /\ (Called("start_bot", bot_name) /\ Running(bot_name)) =>
                  /\ ~call'.raised
                  /\ NoBotChanged
                  /\ emitted' = emitted
                  /\ LogsExactly(<<LogEntry("WARNING",
                                           "Bot '" \o bot_name
                                               \o "' is already running",
                                           NoBot)>>)
           /\ (Called("stop_bot", bot_name) /\ Exists(bot_name)
                   /\ ~Running(bot_name)) =>
                  /\ ~call'.raised
                  /\ NoBotChanged
                  /\ emitted' = emitted
                  /\ LogsExactly(<<LogEntry("WARNING",
                                           "Bot '" \o bot_name
                                               \o "' is not running",
                                           NoBot)>>)]_vars

\* start_bot has been called twice for a bot: one bot_started, one timer
C22_Witness ==
    /\ call # None
    /\ call.op = "start_bot"
    /\ ~call.raised
    /\ call.bot_name \in bot_timers
    /\ Last(GeneralLogs(logs)).level = "WARNING"
    /\ Len(emitted) = 1
    /\ emitted[1] = Signal("bot_started", call.bot_name)

\* stop_bot has been called for a bot that was not running
C22_StopOfIdleBot ==
    /\ call # None
    /\ call.op = "stop_bot"
    /\ ~call.raised
    /\ call.bot_name \in DOMAIN bots
    /\ Last(GeneralLogs(logs)).level = "WARNING"
    /\ emitted = <<>>

----------------------------------------------------------------------------
(* C23: remove_bot on a running bot stops it first: bot_stopped is emitted  *)
(* for that bot, and "Stopped bot" is logged before "Removed bot"; after    *)
(* remove_bot has returned the name is absent from bots, bot_timers and     *)
(* bot_threads. No timer and no thread exists for a name that is not a bot. *)
C23_RemoveStopsFirst ==
    /\ [](bot_timers \subseteq DOMAIN bots /\ bot_threads \subseteq DOMAIN bots)
    /\ [][\A bot_name \in BotNames :
              (Called("remove_bot", bot_name) /\ Exists(bot_name)) =>
                  /\ ~call'.raised
                  /\ bot_name \notin DOMAIN bots'
                  /\ bot_name \notin bot_timers'
                  /\ bot_name \notin bot_threads'
                  /\ \A other \in DOMAIN bots \ {bot_name} :
                         /\ other \in DOMAIN bots'
                         /\ bots'[other] = bots[other]
                  /\ bot_timers' = bot_timers \ {bot_name}
                  /\ bot_threads' = bot_threads \ {bot_name}
                  /\ IF Running(bot_name)
                     THEN /\ emitted' = Append(emitted,
                                               Signal("bot_stopped", bot_name))
                          /\ LogsExactly(
                                 <<LogEntry("INFO", "Stopped bot: " \o bot_name,
                                            NoBot),
                                   LogEntry("INFO", "Removed bot: " \o bot_name,
                                            NoBot)>>)
                     ELSE /\ emitted' = emitted
                          /\ LogsExactly(
                                 <<LogEntry("INFO", "Removed bot: " \o bot_name,
                                            NoBot)>>)]_vars

\* a bot was started and then removed: its timer is gone, bot_stopped was
\* the last signal
C23_Witness ==
    /\ call # None
    /\ call.op = "remove_bot"
    /\ ~call.raised
    /\ call.bot_name \notin DOMAIN bots
    /\ call.bot_name \notin bot_timers
    /\ Len(emitted) = 2
    /\ emitted[1] = Signal("bot_started", call.bot_name)
    /\ emitted[2] = Signal("bot_stopped", call.bot_name)

----------------------------------------------------------------------------
(* C24: add_bot with a name that already exists raises and changes no bot;  *)
(* remove_bot, start_bot, stop_bot, get_bot and update_bot_config with a    *)
(* name that does not exist raise and change no bot. In both cases nothing  *)
(* is emitted but the bot_error of start_bot and stop_bot.                  *)
C24_UnknownAndDuplicateNamesRaise ==
    [][\A bot_name \in BotNames :
           /\ (Called("add_bot", bot_name) /\ Exists(bot_name)) =>
                  /\ call'.raised
                  /\ NoBotChanged
                  /\ emitted' = emitted
           /\ \A op \in {"remove_bot", "start_bot", "stop_bot", "get_bot",
                         "update_bot_config"} :
                  (Called(op, bot_name) /\ ~Exists(bot_name)) =>
                      /\ call'.raised
                      /\ NoBotChanged
                      /\ emitted' =
                             IF op \in {"start_bot", "stop_bot"}
                             THEN Append(emitted,
                                         Signal("bot_error", bot_name))
                             ELSE emitted]_vars

\* add_bot was refused for a bot that is running with its own configuration
C24_Witness ==
    /\ call # None
    /\ call.op = "add_bot"
    /\ call.raised
    /\ call.bot_name \in bot_timers
    /\ bots[call.bot_name].symbol = "MSFT"

\* update_bot_config was refused for a name that is no bot
C24_UnknownName ==
    /\ call # None
    /\ call.op = "update_bot_config"
    /\ call.raised
    /\ call.bot_name \notin DOMAIN bots

----------------------------------------------------------------------------
(* Vocabulary of the LogManager properties                                  *)

\* the last entries of hist, LogCapacity of them at most
Latest(hist) ==
    SubSeq(hist, Max(1, Len(hist) - LogCapacity + 1), Len(hist))

\* the list called `name` holds the latest entries logged for it, in the
\* order of the calls
HoldsLatest(name) ==
    /\ name \in DOMAIN logged
    /\ Len(logs[name]) <= LogCapacity
    /\ logs[name] = Latest(logged[name])

\* some call so far passed the name of the general list as its bot_name
BotNamedGeneral ==
    \E k \in 1..Len(logged[GeneralList]) :
        logged[GeneralList][k].bot_name = GeneralList

(* C25: every log list, each bot's and the general one, holds at most 1000  *)
(* entries, and they are the entries most recently logged for that list,    *)
(* in the order they were logged.                                           *)
C25_ListsHoldTheLatestEntries == \A name \in DOMAIN logs : HoldsLatest(name)

\* C25, where it holds: no list is ever longer than 1000 entries, every
\* bot's list holds its latest entries, and so does the general list as
\* long as no call has named a bot "general"
C25_LatestUnlessBotNamedGeneral ==
    \A name \in DOMAIN logs :
        /\ Len(logs[name]) <= LogCapacity
        /\ (name # GeneralList \/ ~BotNamedGeneral) => HoldsLatest(name)

\* a bot's list and the general list have been cut to their last 1000
C25_ListsCut ==
    /\ "AAPL_MA_Bot" \in DOMAIN logs
    /\ Len(logged["AAPL_MA_Bot"]) > LogCapacity
    /\ Len(logged[GeneralList]) > LogCapacity
    /\ HoldsLatest("AAPL_MA_Bot")
    /\ HoldsLatest(GeneralList)

\* one call with bot_name "general" has put its entry twice in the list
C25_EntryTwiceInGeneral ==
    /\ Len(logs[GeneralList]) = Len(logged[GeneralList]) + 1
    /\ logs[GeneralList][Len(logs[GeneralList])]
           = logs[GeneralList][Len(logs[GeneralList]) - 1]

----------------------------------------------------------------------------
\* the bots whose 'active' flag is true
ActiveBots == {bot_name \in DOMAIN bots : IsBotActive(Manager, bot_name)}

(* C26: after any sequence of BotManager operations, with any config        *)
(* dictionaries, the set of bots whose 'active' flag is true equals the     *)
(* set of the names in bot_timers and the set of the names in bot_threads.  *)
C26_ActiveBotsHaveTheTimers ==
    /\ ActiveBots = bot_timers
    /\ ActiveBots = bot_threads

\* C26, where it holds: the timers and the threads belong to the same bots,
\* and each of them to a bot whose flag is true
C26_TimersOfActiveBots ==
    /\ bot_timers = bot_threads
    /\ bot_timers \subseteq ActiveBots

\* add_bot with a config that sets 'active' has made a bot that counts as
\* running and has neither timer nor thread
C26_ActiveByConfig ==
    /\ call # None
    /\ call.op = "add_bot"
    /\ ~call.raised
    /\ call.bot_name \in ActiveBots
    /\ call.bot_name \notin bot_timers
    /\ call.bot_name \notin bot_threads

\* the same through update_bot_config on a bot that is not running
C26_ActiveByUpdate ==
    /\ call # None
    /\ call.op = "update_bot_config"
    /\ ~call.raised
    /\ call.bot_name \in ActiveBots
    /\ call.bot_name \notin bot_timers

\* start_bot has given a bot its flag, its timer and its thread
C26_Started ==
    /\ call # None
    /\ call.op = "start_bot"
    /\ call.bot_name \in ActiveBots \cap bot_timers \cap bot_threads

----------------------------------------------------------------------------
(* Vocabulary of the tick properties                                        *)

\* the places in `emitted` of the bot_started and bot_stopped of bot_name
Lifecycle(bot_name) ==
    {k \in 1..Len(emitted) :
        /\ emitted[k].bot_name = bot_name
        /\ emitted[k].signal \in {"bot_started", "bot_stopped"}}

\* the latest of bot_started and bot_stopped for bot_name, None when the
\* bot has never been started
LastLifecycle(bot_name) ==
    IF Lifecycle(bot_name) = {} THEN None
    ELSE emitted[CHOOSE k \in Lifecycle(bot_name) :
                     \A j \in Lifecycle(bot_name) : j <= k]

\* stop_bot has stopped bot_name and start_bot has not started it since
StoppedLast(bot_name) ==
    /\ LastLifecycle(bot_name) # None
    /\ LastLifecycle(bot_name).signal = "bot_stopped"

\* the tick of this step is not seen from outside
SilentTick ==
    /\ emitted' = emitted
    /\ logs' = logs
    /\ NoBotChanged

(* C27: bot_trade is emitted for a bot only while the bot is active. When   *)
(* ticks interleave with start_bot, stop_bot and remove_bot in any order,   *)
(* a tick handled after the bot's stop_bot and before its next start_bot    *)
(* emits nothing and logs nothing, and so does a tick for a bot that was    *)
(* never started or was removed; a tick that emits bot_trade is a tick for  *)
(* a bot that start_bot started last.                                       *)
C27_NoTradeAfterStop ==
    [][\A bot_name \in BotNames :
           Called("_update_bot", bot_name) =>
               /\ ~call'.raised
               /\ StoppedLast(bot_name) => SilentTick
               /\ ~Running(bot_name) => SilentTick
               /\ emitted' # emitted =>
                      /\ Running(bot_name)
                      /\ LastLifecycle(bot_name) # None
                      /\ LastLifecycle(bot_name).signal = "bot_started"
                      /\ Len(emitted') = Len(emitted) + 1
                      /\ emitted'[Len(emitted')].signal = "bot_trade"
                      /\ emitted'[Len(emitted')].bot_name = bot_name]_vars

\* a tick was handled after start_bot and stop_bot of its bot, which is
\* still a bot: nothing came after bot_stopped
C27_Witness ==
    /\ call # None
    /\ call.op = "_update_bot"
    /\ call.bot_name \in DOMAIN bots
    /\ StoppedLast(call.bot_name)
    /\ Len(emitted) = 2
    /\ emitted[2] = Signal("bot_stopped", call.bot_name)
    /\ Last(GeneralLogs(logs)).message = "Stopped bot: " \o call.bot_name

\* a tick of a running bot emitted bot_trade
C27_TradeWhileRunning ==
    /\ call # None
    /\ call.op = "_update_bot"
    /\ emitted # <<>>
    /\ Last(emitted).signal = "bot_trade"
    /\ call.bot_name \in bot_timers

----------------------------------------------------------------------------
(* C28: with a non-negative initial balance and positive closes, the cash   *)
(* balance is never negative, whatever the buy and sell signals: not in     *)
(* the Backtester, not in a point of the equity curve, and a BUY never      *)
(* costs more than the cash there was.                                      *)
C28_CashNeverNegative ==
    /\ initial_balance >= 0
    /\ current_balance >= 0
    /\ \A k \in 1..Len(equity_curve) : equity_curve[k].balance >= 0
    /\ (bar # None /\ "close" \in DOMAIN bar) => bar.close > 0

\* three buys have left 11000, less than the buy of this bar costs: the buy
\* was refused and the point of the bar shows the 11000
C28_Witness ==
    /\ BarProcessed
    /\ bar.buy_signal
    /\ Len(trades) = 3
    /\ \A k \in 1..3 : trades[k].side = "BUY" /\ trades[k].date < bar.date
    /\ current_balance = 11000
    /\ current_balance < bar.close * FixedQuantity
    /\ Last(equity_curve).date = bar.date
    /\ Last(equity_curve).balance = 11000

\* a Backtester without money: every buy is refused at a balance of 0
C28_NothingToSpend ==
    /\ BarProcessed
    /\ bar.buy_signal
    /\ initial_balance = 0
    /\ current_balance = 0
    /\ trades = <<>>

----------------------------------------------------------------------------
(* C29: money is conserved in every state of a run: the cash balance plus   *)
(* the cost basis of the open Position (0 when there is none) equals the    *)
(* initial balance plus the sum of the pnl of the SELL trades recorded so   *)
(* far.                                                                     *)
C29_MoneyConserved ==
    current_balance + HeldCost
        = initial_balance + RealizedPnl(trades, Len(trades))

\* a Position that cost 10000 is open after a SELL at a loss of 29500:
\* 60500 + 10000 = 100000 - 29500
C29_Witness ==
    /\ Held
    /\ HeldCost = 10000
    /\ Len(trades) = 3
    /\ trades[2].side = "SELL"
    /\ trades[2].pnl = -29500
    /\ trades[3].side = "BUY"
    /\ initial_balance = 100000
    /\ current_balance = 60500

----------------------------------------------------------------------------
\* the places of the trades of one side in the trade log ts
Side(ts, side) == {k \in 1..Len(ts) : ts[k].side = side}

\* in the trade log ts a SELL never comes first and never follows a SELL
SellsFollowBuys(ts) ==
    \A k \in Side(ts, "SELL") : k > 1 /\ ts[k - 1].side = "BUY"

Half == <<1, 2>>

(* C30: in the trade log of a run every SELL comes after a BUY that lies    *)
(* after the SELL before it: the log never starts with a SELL and no two    *)
(* SELLs are adjacent. So there are never more SELLs than BUYs, and the     *)
(* win_rate of a report is at most 1/2.                                     *)
C30_SellsFollowBuys ==
    /\ SellsFollowBuys(trades)
    /\ Cardinality(Side(trades, "SELL")) <= Cardinality(Side(trades, "BUY"))
    /\ Reported =>
           /\ result.trades = trades
           /\ IsFinite(result.win_rate)
           /\ ~Less(Half, result.win_rate)

\* a report of two buys, a winning sell, a buy and a winning sell: two
\* SELLs, none adjacent to the other, and a win_rate of 2/5
C30_Witness ==
    /\ Reported
    /\ Len(result.trades) = 5
    /\ Side(result.trades, "SELL") = {3, 5}
    /\ result.trades[3].pnl > 0
    /\ result.trades[5].pnl > 0
    /\ result.win_rate = <<2, 5>>

\* a report with the highest win_rate there is: every BUY sold at a profit
C30_HalfReported ==
    /\ Reported
    /\ Len(result.trades) = 4
    /\ Side(result.trades, "SELL") = {2, 4}
    /\ result.win_rate = Half

=============================================================================
